---- MODULE Spec2Model ----
(***************************************************************************)
(* XY chart visual-encoding and geometry engine of beautiful-mermaid:      *)
(* the colour palette (xychart/colors.ts) and the SVG renderer with its    *)
(* geometry helpers (xychart/renderer.ts).                                 *)
(*                                                                         *)
(* Every function of the program is a pure function, modelled as an        *)
(* operator computed the way the code computes it.  The state machine is   *)
(* a caller: from "idle" it calls one function on inputs drawn from small  *)
(* sets, the call's inputs, locals and result become the state, and        *)
(* Return goes back to "idle".                                             *)
(* The program keeps no state between calls; seen is the observer's        *)
(* record of the render calls that have returned, arguments and result.    *)
(*                                                                         *)
(* Numbers.  A JavaScript number is modelled as an exact rational <<n, d>> *)
(* in lowest terms with d > 0, extended with the three non-finite values   *)
(* of IEEE arithmetic: NaN = <<0, 0>>, +Infinity = <<1, 0>>,               *)
(* -Infinity = <<-1, 0>>.  The colour inputs are chosen so that the code's *)
(* double arithmetic gives the exact result.  In the spline a control      *)
(* point's y that lies exactly on a rounding tie of r may print 0.1 apart  *)
(* in double arithmetic; the x-coordinates, the end points, the command    *)
(* structure and finiteness are those of the code.                         *)
(*                                                                         *)
(* Strings.  A string is a sequence of one-character strings.              *)
(***************************************************************************)
EXTENDS Integers, Sequences, FiniteSets, TLC

VARIABLES pc, call, ret, seen

vars == <<pc, call, ret, seen>>

(***************************************************************************)
(* Rational arithmetic with IEEE non-finite values                         *)
(***************************************************************************)
Abs(x) == IF x < 0 THEN -x ELSE x

Sign(x) == IF x < 0 THEN -1 ELSE IF x > 0 THEN 1 ELSE 0

RECURSIVE Gcd(_, _)
Gcd(a, b) == IF b = 0 THEN a ELSE Gcd(b, a % b)

QNaN == <<0, 0>>

QInf(s) == <<s, 0>>

IsNaN(a) == a[2] = 0 /\ a[1] = 0

IsInf(a) == a[2] = 0 /\ a[1] # 0

IsFinite(a) == a[2] # 0

\* n/d in lowest terms, d # 0
QNorm(n, d) ==
  LET g == Gcd(Abs(n), Abs(d))
      s == IF d < 0 THEN -1 ELSE 1
  IN  <<s * (n \div g), s * (d \div g)>>

QInt(k) == <<k, 1>>

QNeg(a) == <<-a[1], a[2]>>

QAdd(a, b) ==
  IF IsNaN(a) \/ IsNaN(b) THEN QNaN
  ELSE IF IsInf(a) THEN (IF IsInf(b) /\ b[1] # a[1] THEN QNaN ELSE a)
  ELSE IF IsInf(b) THEN b
  ELSE QNorm(a[1] * b[2] + b[1] * a[2], a[2] * b[2])

QSub(a, b) == QAdd(a, QNeg(b))

QMul(a, b) ==
  IF IsNaN(a) \/ IsNaN(b) THEN QNaN
  ELSE IF IsInf(a) \/ IsInf(b)
       THEN (IF a[1] = 0 \/ b[1] = 0 THEN QNaN ELSE QInf(Sign(a[1]) * Sign(b[1])))
  ELSE QNorm(a[1] * b[1], a[2] * b[2])

\* IEEE division: x/0 is an infinity for x # 0 and NaN for x = 0
QDiv(a, b) ==
  IF IsNaN(a) \/ IsNaN(b) THEN QNaN
  ELSE IF IsInf(b) THEN (IF IsInf(a) THEN QNaN ELSE QInt(0))
  ELSE IF IsInf(a) THEN QInf(IF b[1] < 0 THEN -a[1] ELSE a[1])
  ELSE IF b[1] = 0 THEN (IF a[1] = 0 THEN QNaN ELSE QInf(Sign(a[1])))
  ELSE QNorm(a[1] * b[2], a[2] * b[1])

\* a < b; false when either is NaN, as in IEEE
QLt(a, b) ==
  IF IsNaN(a) \/ IsNaN(b) THEN FALSE
  ELSE IF IsInf(a) THEN a[1] < 0 /\ ~(IsInf(b) /\ b[1] < 0)
  ELSE IF IsInf(b) THEN b[1] > 0
  ELSE a[1] * b[2] < b[1] * a[2]

QLe(a, b) == ~IsNaN(a) /\ ~IsNaN(b) /\ ~QLt(b, a)

QEq(a, b) == ~IsNaN(a) /\ a = b

\* Math.max / Math.min: NaN if any argument is NaN
QMax(a, b) == IF IsNaN(a) \/ IsNaN(b) THEN QNaN ELSE IF QLt(a, b) THEN b ELSE a

QMin(a, b) == IF IsNaN(a) \/ IsNaN(b) THEN QNaN ELSE IF QLt(b, a) THEN b ELSE a

QAbs(a) == <<Abs(a[1]), a[2]>>

\* floor of a finite rational, an integer
QFloor(a) == a[1] \div a[2]

\* truncation toward zero of a finite rational, an integer
QTrunc(a) == IF a[1] < 0 THEN -((-a[1]) \div a[2]) ELSE a[1] \div a[2]

\* Math.round of a finite rational: floor(a + 1/2), halves go up
QRound(a) == (2 * a[1] + a[2]) \div (2 * a[2])

\* the % operator on finite numbers: the result has the sign of the dividend
QMod(a, b) == QSub(a, QMul(b, QInt(QTrunc(QDiv(a, b)))))

(***************************************************************************)
(* Strings of hexadecimal digits                                           *)
(***************************************************************************)
LowerDigits == <<"0", "1", "2", "3", "4", "5", "6", "7", "8", "9", "a", "b", "c", "d", "e", "f">>

UpperDigits == <<"0", "1", "2", "3", "4", "5", "6", "7", "8", "9", "A", "B", "C", "D", "E", "F">>

\* the value of one hexadecimal digit, either case
HexVal(ch) == (CHOOSE i \in 1..16 : LowerDigits[i] = ch \/ UpperDigits[i] = ch) - 1

\* String.prototype.replace('#', ''): drops the first '#', if any
StripHash(s) ==
  IF \E i \in 1..Len(s) : s[i] = "#"
  THEN LET k == CHOOSE i \in 1..Len(s) : s[i] = "#" /\ \A j \in 1..(i - 1) : s[j] # "#"
       IN  SubSeq(s, 1, k - 1) \o SubSeq(s, k + 1, Len(s))
  ELSE s

\* parseInt(h.substring(from, from + 2), 16) for two hexadecimal digits (0-based from)
parseInt16(h, from) == 16 * HexVal(h[from + 1]) + HexVal(h[from + 2])

\* Number.prototype.toString(16) of an integer
RECURSIVE toString16(_)
toString16(k) ==
  IF k < 0 THEN <<"-">> \o toString16(-k)
  ELSE IF k < 16 THEN <<LowerDigits[k + 1]>>
  ELSE toString16(k \div 16) \o <<LowerDigits[(k % 16) + 1]>>

\* String.prototype.padStart(2, '0')
padStart2(s) == IF Len(s) < 2 THEN <<"0">> \o s ELSE s

(***************************************************************************)
(* xychart/colors.ts                                                       *)
(***************************************************************************)
Max3(a, b, c) == IF a >= b /\ a >= c THEN a ELSE IF b >= c THEN b ELSE c

Min3(a, b, c) == IF a <= b /\ a <= c THEN a ELSE IF b <= c THEN b ELSE c

hexToRgb(hex) ==
  LET h == StripHash(hex)
  IN  <<parseInt16(h, 0), parseInt16(h, 2), parseInt16(h, 4)>>

\* <<hue in degrees, saturation in percent, lightness in percent>>; the channels
\* are kept as integers k for k/255, which leaves every quotient unchanged
hexToHsl(hex) ==
  LET rgb == hexToRgb(hex)
      ri  == rgb[1]
      gi  == rgb[2]
      bi  == rgb[3]
      max == Max3(ri, gi, bi)
      min == Min3(ri, gi, bi)
      l   == QNorm(max + min, 2 * 255)
      d   == max - min
      s   == IF max + min > 255 THEN QNorm(d, 2 * 255 - max - min) ELSE QNorm(d, max + min)
      hue == IF max = ri THEN QDiv(QAdd(QNorm(gi - bi, d), QInt(IF gi < bi THEN 6 ELSE 0)), QInt(6))
             ELSE IF max = gi THEN QDiv(QAdd(QNorm(bi - ri, d), QInt(2)), QInt(6))
             ELSE QDiv(QAdd(QNorm(ri - gi, d), QInt(4)), QInt(6))
  IN  IF max = min THEN <<QInt(0), QInt(0), QMul(l, QInt(100))>>
      ELSE <<QMul(hue, QInt(360)), QMul(s, QInt(100)), QMul(l, QInt(100))>>

hslToHex(h, s, l) ==
  LET si == QDiv(s, QInt(100))
      li == QDiv(l, QInt(100))
      c  == QMul(QSub(QInt(1), QAbs(QSub(QMul(QInt(2), li), QInt(1)))), si)
      x  == QMul(c, QSub(QInt(1), QAbs(QSub(QMod(QDiv(h, QInt(60)), QInt(2)), QInt(1)))))
      m  == QSub(li, QDiv(c, QInt(2)))
      z  == QInt(0)
      rgb == IF QLt(h, QInt(60)) THEN <<c, x, z>>
             ELSE IF QLt(h, QInt(120)) THEN <<x, c, z>>
             ELSE IF QLt(h, QInt(180)) THEN <<z, c, x>>
             ELSE IF QLt(h, QInt(240)) THEN <<z, x, c>>
             ELSE IF QLt(h, QInt(300)) THEN <<x, z, c>>
             ELSE <<c, z, x>>
      toHex(v) == padStart2(toString16(QRound(QMul(QAdd(v, m), QInt(255)))))
  IN  <<"#">> \o toHex(rgb[1]) \o toHex(rgb[2]) \o toHex(rgb[3])

rgbToHex(r, g, b) ==
  LET toHex(v) == padStart2(toString16(QRound(QMax(QInt(0), QMin(QInt(255), v)))))
  IN  <<"#">> \o toHex(r) \o toHex(g) \o toHex(b)

isDarkBackground(bgHex) == QLt(hexToHsl(bgHex)[3], QInt(50))

\* one channel of the mix, before rgbToHex: b * inv + f * ratio
mixChannel(b, f, ratio) ==
  LET inv == QSub(QInt(1), ratio)
  IN  QAdd(QMul(QInt(b), inv), QMul(QInt(f), ratio))

mixHexColors_clampedRatio(bgHex, fgHex, ratio) ==
  LET b  == hexToRgb(bgHex)
      f  == hexToRgb(fgHex)
      rt == QMax(QInt(0), QMin(QInt(1), ratio))
  IN  rgbToHex(mixChannel(b[1], f[1], rt), mixChannel(b[2], f[2], rt), mixChannel(b[3], f[3], rt))

mixHexColors_swapped(bgHex, fgHex, ratio) ==
  LET b == hexToRgb(bgHex)
      f == hexToRgb(fgHex)
  IN  rgbToHex(mixChannel(f[1], b[1], ratio), mixChannel(f[2], b[2], ratio), mixChannel(f[3], b[3], ratio))

mixHexColors(bgHex, fgHex, ratio) ==
  LET b == hexToRgb(bgHex)
      f == hexToRgb(fgHex)
  IN  rgbToHex(mixChannel(b[1], f[1], ratio), mixChannel(b[2], f[2], ratio), mixChannel(b[3], f[3], ratio))

\* an absent (undefined) background is the empty string, which is falsy too
NoColor == <<>>

\* Math.ceil(index / 2) for an integer index
seriesTier(index) == (index + 1) \div 2

seriesDark_ignoresBackground(index, bgColor) == index % 2 = 1

\* the shading direction of index > 0
seriesDark(index, bgColor) ==
  LET oddIndex == index % 2 = 1
  IN  IF bgColor # NoColor /\ isDarkBackground(bgColor) THEN ~oddIndex ELSE oddIndex

seriesLightness_unclamped(index, bgColor) ==
  LET tier == seriesTier(index)
  IN  IF seriesDark(index, bgColor) THEN 48 - tier * 13 ELSE 55 + tier * 11

\* the lightness l of index > 0
seriesLightness(index, bgColor) ==
  LET tier == seriesTier(index)
      max(a, b) == IF a >= b THEN a ELSE b
      min(a, b) == IF a <= b THEN a ELSE b
  IN  IF seriesDark(index, bgColor) THEN max(25, 48 - tier * 13) ELSE min(78, 55 + tier * 11)

seriesHue_noTier(index, accentColor, bgColor) ==
  LET h      == hexToHsl(accentColor)[1]
      hShift == IF seriesDark(index, bgColor) THEN -8 ELSE 12
  IN  QMod(QAdd(QMod(QAdd(h, QInt(hShift)), QInt(360)), QInt(360)), QInt(360))

\* the hue newH of index > 0
seriesHue(index, accentColor, bgColor) ==
  LET h      == hexToHsl(accentColor)[1]
      hShift == (IF seriesDark(index, bgColor) THEN -8 ELSE 12) * seriesTier(index)
  IN  QMod(QAdd(QMod(QAdd(h, QInt(hShift)), QInt(360)), QInt(360)), QInt(360))

\* the working saturation chartS
seriesSaturation(accentColor) == QMax(QInt(55), QMin(QInt(85), hexToHsl(accentColor)[2]))

getSeriesColor_noEarlyReturn(index, accentColor, bgColor) ==
  hslToHex(seriesHue(index, accentColor, bgColor), seriesSaturation(accentColor),
           QInt(seriesLightness(index, bgColor)))

getSeriesColor(index, accentColor, bgColor) ==
  IF index = 0 THEN accentColor
  ELSE hslToHex(seriesHue(index, accentColor, bgColor), seriesSaturation(accentColor),
                QInt(seriesLightness(index, bgColor)))

(***************************************************************************)
(* xychart/renderer.ts: number formatting and path commands                *)
(***************************************************************************)
\* r(n) = String(Math.round(n * 10) / 10).  The string is modelled by the number
\* it prints (String is one-to-one on these values, and -0 prints as "0");
\* NaN and the infinities print as "NaN", "Infinity", "-Infinity".
r(n) == IF IsFinite(n) THEN QNorm(QRound(QMul(n, QInt(10))), 10) ELSE n

\* one command of an SVG path string: its letter and its printed numbers
Cmd(op, args) == [op |-> op, args |-> args]

(***************************************************************************)
(* xychart/renderer.ts: smoothCurvePath, the natural cubic spline          *)
(* Arrays are functions on 0..n-1, indexed as in the source; points is a   *)
(* sequence, points[i]! of the source is Pt(points, i).                    *)
(***************************************************************************)
Pt(points, i) == points[i + 1]

\* step 1: interval widths h[0..n-2]
splineH(points) ==
  [i \in 0..(Len(points) - 2) |-> QSub(Pt(points, i + 1).x, Pt(points, i).x)]

\* step 1: secant slopes delta[0..n-2]
splineDelta(points, h) ==
  [i \in 0..(Len(points) - 2) |->
     IF h[i] = QInt(0) THEN QInt(0)
     ELSE QDiv(QSub(Pt(points, i + 1).y, Pt(points, i).y), h[i])]

\* the divisors step 1 divides by: h[i] wherever h[i] is not 0
RECURSIVE deltaDivisors(_, _)
deltaDivisors(h, i) ==
  IF i < 0 THEN <<>>
  ELSE deltaDivisors(h, i - 1) \o (IF h[i] = QInt(0) THEN <<>> ELSE <<h[i]>>)

RECURSIVE forwardElimination_firstRowRule(_, _, _, _, _)
forwardElimination_firstRowRule(n, h, delta, i, st) ==
  IF ~(i < n - 1) THEN st
  ELSE
    LET diag == QMul(QInt(2), QAdd(h[i - 1], h[i]))
        rhs  == QMul(QInt(3), QSub(delta[i], delta[i - 1]))
        cpi  == QDiv(h[i], diag)
        dpi  == QDiv(rhs, diag)
    IN  forwardElimination_firstRowRule(n, h, delta, i + 1,
          [cp  |-> [st.cp EXCEPT ![i] = cpi],
           dp  |-> [st.dp EXCEPT ![i] = dpi],
           div |-> Append(st.div, diag)])

\* step 2, forward elimination: the loop body for i, then the rest of the loop.
\* st holds cp, dp and the divisors used so far (diag for i = 1, w after).
RECURSIVE forwardElimination(_, _, _, _, _)
forwardElimination(n, h, delta, i, st) ==
  IF ~(i < n - 1) THEN st
  ELSE
    LET diag == QMul(QInt(2), QAdd(h[i - 1], h[i]))
        rhs  == QMul(QInt(3), QSub(delta[i], delta[i - 1]))
        w    == QSub(diag, QMul(h[i - 1], st.cp[i - 1]))
        div  == IF i = 1 THEN diag ELSE w
        cpi  == QDiv(h[i], div)
        dpi  == IF i = 1 THEN QDiv(rhs, diag)
                ELSE QDiv(QSub(rhs, QMul(h[i - 1], st.dp[i - 1])), w)
    IN  forwardElimination(n, h, delta, i + 1,
          [cp  |-> [st.cp EXCEPT ![i] = cpi],
           dp  |-> [st.dp EXCEPT ![i] = dpi],
           div |-> Append(st.div, div)])

\* step 2, back substitution: the loop body for i, then the rest of the loop
RECURSIVE backSubstitution(_, _, _, _)
backSubstitution(cp, dp, i, c) ==
  IF ~(i >= 1) THEN c
  ELSE backSubstitution(cp, dp, i - 1,
         [c EXCEPT ![i] = QSub(dp[i], QMul(cp[i], c[i + 1]))])

ZeroArray(n) == [i \in 0..(n - 1) |-> QInt(0)]

\* step 2: cp, dp and the divisors of the elimination, for n > 2
splineElimination(n, h, delta) ==
  forwardElimination(n, h, delta, 1, [cp |-> ZeroArray(n), dp |-> ZeroArray(n), div |-> <<>>])

\* step 2: the second-derivative coefficients c[0..n-1]
splineC(n, h, delta) ==
  IF n > 2
  THEN LET e == splineElimination(n, h, delta)
       IN  backSubstitution(e.cp, e.dp, n - 2, ZeroArray(n))
  ELSE ZeroArray(n)

\* step 3: the first derivatives slopes[0..n-1]
splineSlopes(n, h, delta, c) ==
  [i \in 0..(n - 1) |->
     IF i < n - 1
     THEN QSub(delta[i], QDiv(QMul(h[i], QAdd(QMul(QInt(2), c[i]), c[i + 1])), QInt(3)))
     ELSE QAdd(delta[n - 2], QDiv(QMul(h[n - 2], c[n - 2]), QInt(3)))]

bezierSegment_signSlip(points, h, slopes, i) ==
  LET seg  == QDiv(h[i], QInt(3))
      cp1x == QAdd(Pt(points, i).x, seg)
      cp1y == QAdd(Pt(points, i).y, QMul(slopes[i], seg))
      cp2x == QAdd(Pt(points, i + 1).x, seg)
      cp2y == QSub(Pt(points, i + 1).y, QMul(slopes[i + 1], seg))
  IN  Cmd("C", <<r(cp1x), r(cp1y), r(cp2x), r(cp2y),
                 r(Pt(points, i + 1).x), r(Pt(points, i + 1).y)>>)

\* step 4: the cubic Bezier command of interval i
bezierSegment(points, h, slopes, i) ==
  LET seg  == QDiv(h[i], QInt(3))
      cp1x == QAdd(Pt(points, i).x, seg)
      cp1y == QAdd(Pt(points, i).y, QMul(slopes[i], seg))
      cp2x == QSub(Pt(points, i + 1).x, seg)
      cp2y == QSub(Pt(points, i + 1).y, QMul(slopes[i + 1], seg))
  IN  Cmd("C", <<r(cp1x), r(cp1y), r(cp2x), r(cp2y),
                 r(Pt(points, i + 1).x), r(Pt(points, i + 1).y)>>)

\* the spline of n >= 2 points: steps 1 to 4
splinePath(points) ==
  LET n      == Len(points)
      h      == splineH(points)
      delta  == splineDelta(points, h)
      c      == splineC(n, h, delta)
      slopes == splineSlopes(n, h, delta, c)
  IN  <<Cmd("M", <<r(Pt(points, 0).x), r(Pt(points, 0).y)>>)>>
        \o [k \in 1..(n - 1) |-> bezierSegment(points, h, slopes, k - 1)]

smoothCurvePath_noLineCase(points) ==
  IF Len(points) = 0 THEN <<>>
  ELSE IF Len(points) = 1 THEN <<Cmd("M", <<r(Pt(points, 0).x), r(Pt(points, 0).y)>>)>>
  ELSE splinePath(points)

\* the path string, as the sequence of its commands ('' is the empty sequence)
smoothCurvePath(points) ==
  IF Len(points) = 0 THEN <<>>
  ELSE IF Len(points) = 1 THEN <<Cmd("M", <<r(Pt(points, 0).x), r(Pt(points, 0).y)>>)>>
  ELSE IF Len(points) = 2
       THEN <<Cmd("M", <<r(Pt(points, 0).x), r(Pt(points, 0).y)>>),
              Cmd("L", <<r(Pt(points, 1).x), r(Pt(points, 1).y)>>)>>
  ELSE splinePath(points)

\* every divisor of a call with n >= 3 points, in the order the code divides
splineDivisors(points) ==
  LET n     == Len(points)
      h     == splineH(points)
      delta == splineDelta(points, h)
  IN  deltaDivisors(h, n - 2) \o splineElimination(n, h, delta).div

(***************************************************************************)
(* Inputs of smoothCurvePath                                               *)
(***************************************************************************)
\* the largest number of points of a line
MaxPoints == 4

\* x of the first point, and the steps from one x to the next: a duplicate x,
\* a quarter (which falls between two printed tenths), and a wide step
FirstX == QNorm(1, 4)

XSteps == { QInt(0), QNorm(1, 4), QInt(3) }

YValues == { QInt(2), QNorm(-5, 4) }

\* the sequences of n points with non-decreasing x, as the layout stage gives them
RECURSIVE PointSeqs(_)
PointSeqs(n) ==
  IF n = 0 THEN { <<>> }
  ELSE IF n = 1 THEN { <<[x |-> FirstX, y |-> y]>> : y \in YValues }
  ELSE { Append(ps, [x |-> QAdd(ps[n - 1].x, dx), y |-> y]) :
           ps \in PointSeqs(n - 1), dx \in XSteps, y \in YValues }

(***************************************************************************)
(* xychart/renderer.ts: the bar paths                                      *)
(***************************************************************************)
CHART_FONT ==
  [titleSize |-> 18, titleWeight |-> 600, axisTitleSize |-> 15, axisTitleWeight |-> 500,
   labelSize |-> 14, labelWeight |-> 400, legendSize |-> 14, legendWeight |-> 400,
   dotRadius |-> 5, barRadius |-> 8]

\* Math.min(radius, w / 2, h / 2)
effectiveRadius(w, h, radius) == QMin(QMin(radius, QDiv(w, QInt(2))), QDiv(h, QInt(2)))

\* the path of the rr <= 0 branch of both builders
plainRectPath(x, y, w, h) ==
  <<Cmd("M", <<r(x), r(y)>>), Cmd("h", <<r(w)>>), Cmd("v", <<r(h)>>), Cmd("h", <<r(QNeg(w))>>),
    Cmd("Z", <<>>)>>

roundedTopBarPath_negativeOnly(x, y, w, h, radius) ==
  LET rr == effectiveRadius(w, h, radius)
      x1 == QAdd(x, w)
      y1 == QAdd(y, h)
  IN  IF QLt(rr, QInt(0)) THEN plainRectPath(x, y, w, h)
      ELSE <<Cmd("M", <<r(x), r(QAdd(y, rr))>>),
             Cmd("Q", <<r(x), r(y), r(QAdd(x, rr)), r(y)>>),
             Cmd("L", <<r(QSub(x1, rr)), r(y)>>),
             Cmd("Q", <<r(x1), r(y), r(x1), r(QAdd(y, rr))>>),
             Cmd("L", <<r(x1), r(QSub(y1, rr))>>),
             Cmd("Q", <<r(x1), r(y1), r(QSub(x1, rr)), r(y1)>>),
             Cmd("L", <<r(QAdd(x, rr)), r(y1)>>),
             Cmd("Q", <<r(x), r(y1), r(x), r(QSub(y1, rr))>>),
             Cmd("Z", <<>>)>>

roundedTopBarPath(x, y, w, h, radius) ==
  LET rr == effectiveRadius(w, h, radius)
      x1 == QAdd(x, w)
      y1 == QAdd(y, h)
  IN  IF QLe(rr, QInt(0)) THEN plainRectPath(x, y, w, h)
      ELSE <<Cmd("M", <<r(x), r(QAdd(y, rr))>>),
             Cmd("Q", <<r(x), r(y), r(QAdd(x, rr)), r(y)>>),
             Cmd("L", <<r(QSub(x1, rr)), r(y)>>),
             Cmd("Q", <<r(x1), r(y), r(x1), r(QAdd(y, rr))>>),
             Cmd("L", <<r(x1), r(QSub(y1, rr))>>),
             Cmd("Q", <<r(x1), r(y1), r(QSub(x1, rr)), r(y1)>>),
             Cmd("L", <<r(QAdd(x, rr)), r(y1)>>),
             Cmd("Q", <<r(x), r(y1), r(x), r(QSub(y1, rr))>>),
             Cmd("Z", <<>>)>>

roundedRightBarPath_leadingEdgeOnly(x, y, w, h, radius) ==
  LET rr == effectiveRadius(w, h, radius)
      x1 == QAdd(x, w)
      y1 == QAdd(y, h)
  IN  IF QLe(rr, QInt(0)) THEN plainRectPath(x, y, w, h)
      ELSE <<Cmd("M", <<r(x), r(y)>>),
             Cmd("L", <<r(QSub(x1, rr)), r(y)>>),
             Cmd("Q", <<r(x1), r(y), r(x1), r(QAdd(y, rr))>>),
             Cmd("L", <<r(x1), r(QSub(y1, rr))>>),
             Cmd("Q", <<r(x1), r(y1), r(QSub(x1, rr)), r(y1)>>),
             Cmd("L", <<r(x), r(y1)>>),
             Cmd("Z", <<>>)>>

roundedRightBarPath(x, y, w, h, radius) ==
  LET rr == effectiveRadius(w, h, radius)
      x1 == QAdd(x, w)
      y1 == QAdd(y, h)
  IN  IF QLe(rr, QInt(0)) THEN plainRectPath(x, y, w, h)
      ELSE <<Cmd("M", <<r(QAdd(x, rr)), r(y)>>),
             Cmd("L", <<r(QSub(x1, rr)), r(y)>>),
             Cmd("Q", <<r(x1), r(y), r(x1), r(QAdd(y, rr))>>),
             Cmd("L", <<r(x1), r(QSub(y1, rr))>>),
             Cmd("Q", <<r(x1), r(y1), r(QSub(x1, rr)), r(y1)>>),
             Cmd("L", <<r(QAdd(x, rr)), r(y1)>>),
             Cmd("Q", <<r(x), r(y1), r(x), r(QSub(y1, rr))>>),
             Cmd("L", <<r(x), r(QAdd(y, rr))>>),
             Cmd("Q", <<r(x), r(y), r(QAdd(x, rr)), r(y)>>),
             Cmd("Z", <<>>)>>

(***************************************************************************)
(* xychart/renderer.ts: the tooltips                                       *)
(* A fragment of markup is the sequence of its elements; an element is its *)
(* tag, its attributes in order as <<name, value>> pairs, and its text.    *)
(* A numeric attribute value is the number it prints.                      *)
(***************************************************************************)
TIP ==
  [fontSize |-> 15, fontWeight |-> 500, height |-> 32, padX |-> 14, offsetY |-> 12,
   rx |-> 8, minY |-> 4, pointerSize |-> 6]

\* the constant imported from ../styles.ts, printed as it is
TEXT_BASELINE_SHIFT == "TEXT_BASELINE_SHIFT"

\* The external heuristic estimator of ../styles.ts, consumed as a pure
\* function of the text, the font size and the font weight: a per-character
\* width proportional to the size, wider for bold text.
estimateTextWidth(text, fontSize, fontWeight) ==
  QMul(QInt(Len(text) * fontSize), IF fontWeight >= 600 THEN QNorm(3, 5) ELSE QNorm(11, 20))

escapeChar(ch) ==
  IF ch = "&" THEN <<"&", "a", "m", "p", ";">>
  ELSE IF ch = "<" THEN <<"&", "l", "t", ";">>
  ELSE IF ch = ">" THEN <<"&", "g", "t", ";">>
  ELSE IF ch = "\"" THEN <<"&", "q", "u", "o", "t", ";">>
  ELSE <<ch>>

RECURSIVE escapeXml(_)
escapeXml(text) == IF text = <<>> THEN <<>> ELSE escapeChar(Head(text)) \o escapeXml(Tail(text))

Elem(tag, attrs, text) == [tag |-> tag, attrs |-> attrs, text |-> text]

\* the value of attribute name of element e
Attr(e, name) == e.attrs[CHOOSE k \in 1..Len(e.attrs) : e.attrs[k][1] = name][2]

\* the pointer triangle below a box whose bottom centre is (ptrX, ptrY)
tipPointer(ptrX, ptrY) ==
  LET ps == QInt(TIP.pointerSize)
  IN  Elem("polygon",
           << <<"points", <<r(QSub(ptrX, ps)), r(ptrY), r(QAdd(ptrX, ps)), r(ptrY),
                            r(ptrX), r(QAdd(ptrY, ps))>> >>,
              <<"class", "xychart-tip xychart-tip-ptr">> >>,
           <<>>)

tooltipAbove_unclamped(cx, topY, text) ==
  LET textW == estimateTextWidth(text, TIP.fontSize, TIP.fontWeight)
      bgW   == QAdd(textW, QInt(TIP.padX * 2))
      bgH   == TIP.height
      tipY  == QSub(QSub(QSub(topY, QInt(TIP.offsetY)), QInt(bgH)), QInt(TIP.pointerSize))
      bgX   == QSub(cx, QDiv(bgW, QInt(2)))
      textX == cx
      textY == QAdd(tipY, QDiv(QInt(bgH), QInt(2)))
      ptrX  == cx
      ptrY  == QAdd(tipY, QInt(bgH))
  IN  <<Elem("rect",
             << <<"x", r(bgX)>>, <<"y", r(tipY)>>, <<"width", r(bgW)>>, <<"height", QInt(bgH)>>,
                <<"rx", QInt(TIP.rx)>>, <<"class", "xychart-tip xychart-tip-bg">> >>,
             <<>>),
        tipPointer(ptrX, ptrY),
        Elem("text",
             << <<"x", r(textX)>>, <<"y", r(textY)>>, <<"text-anchor", "middle">>,
                <<"dy", TEXT_BASELINE_SHIFT>>, <<"class", "xychart-tip xychart-tip-text">> >>,
             escapeXml(text))>>

tooltipAbove_noOffset(cx, topY, text) ==
  LET textW == estimateTextWidth(text, TIP.fontSize, TIP.fontWeight)
      bgW   == QAdd(textW, QInt(TIP.padX * 2))
      bgH   == TIP.height
      tipY  == QMax(QInt(TIP.minY),
                    QSub(QSub(topY, QInt(bgH)), QInt(TIP.pointerSize)))
      bgX   == QSub(cx, QDiv(bgW, QInt(2)))
      textX == cx
      textY == QAdd(tipY, QDiv(QInt(bgH), QInt(2)))
      ptrX  == cx
      ptrY  == QAdd(tipY, QInt(bgH))
  IN  <<Elem("rect",
             << <<"x", r(bgX)>>, <<"y", r(tipY)>>, <<"width", r(bgW)>>, <<"height", QInt(bgH)>>,
                <<"rx", QInt(TIP.rx)>>, <<"class", "xychart-tip xychart-tip-bg">> >>,
             <<>>),
        tipPointer(ptrX, ptrY),
        Elem("text",
             << <<"x", r(textX)>>, <<"y", r(textY)>>, <<"text-anchor", "middle">>,
                <<"dy", TEXT_BASELINE_SHIFT>>, <<"class", "xychart-tip xychart-tip-text">> >>,
             escapeXml(text))>>

tooltipAbove(cx, topY, text) ==
  LET textW == estimateTextWidth(text, TIP.fontSize, TIP.fontWeight)
      bgW   == QAdd(textW, QInt(TIP.padX * 2))
      bgH   == TIP.height
      tipY  == QMax(QInt(TIP.minY),
                    QSub(QSub(QSub(topY, QInt(TIP.offsetY)), QInt(bgH)), QInt(TIP.pointerSize)))
      bgX   == QSub(cx, QDiv(bgW, QInt(2)))
      textX == cx
      textY == QAdd(tipY, QDiv(QInt(bgH), QInt(2)))
      ptrX  == cx
      ptrY  == QAdd(tipY, QInt(bgH))
  IN  <<Elem("rect",
             << <<"x", r(bgX)>>, <<"y", r(tipY)>>, <<"width", r(bgW)>>, <<"height", QInt(bgH)>>,
                <<"rx", QInt(TIP.rx)>>, <<"class", "xychart-tip xychart-tip-bg">> >>,
             <<>>),
        tipPointer(ptrX, ptrY),
        Elem("text",
             << <<"x", r(textX)>>, <<"y", r(textY)>>, <<"text-anchor", "middle">>,
                <<"dy", TEXT_BASELINE_SHIFT>>, <<"class", "xychart-tip xychart-tip-text">> >>,
             escapeXml(text))>>

\* Math.max(...ws) of a sequence of numbers; -Infinity when it is empty
RECURSIVE MaxOf(_)
MaxOf(ws) == IF ws = <<>> THEN QInf(-1) ELSE QMax(Head(ws), MaxOf(Tail(ws)))

\* the label and value elements of the rows from row k on; textY is the y of row k - 1
RECURSIVE tipRows(_, _, _, _, _, _)
tipRows(entries, k, textY, lineH, rowLeft, rowRight) ==
  IF k > Len(entries) THEN <<>>
  ELSE LET y == QAdd(textY, QInt(lineH))
       IN  <<Elem("text",
                  << <<"x", r(rowLeft)>>, <<"y", r(y)>>, <<"text-anchor", "start">>,
                     <<"font-size", QInt(TIP.fontSize)>>, <<"font-weight", QInt(TIP.fontWeight)>>,
                     <<"dy", TEXT_BASELINE_SHIFT>>, <<"class", "xychart-tip xychart-tip-text">> >>,
                  escapeXml(entries[k].legendLabel)),
             Elem("text",
                  << <<"x", r(rowRight)>>, <<"y", r(y)>>, <<"text-anchor", "end">>,
                     <<"font-size", QInt(TIP.fontSize)>>, <<"font-weight", QInt(TIP.fontWeight)>>,
                     <<"dy", TEXT_BASELINE_SHIFT>>, <<"class", "xychart-tip xychart-tip-text">> >>,
                  escapeXml(entries[k].text))>>
             \o tipRows(entries, k + 1, y, lineH, rowLeft, rowRight)

multiTooltipAbove_noLabelGap(cx, topY, label, entries) ==
  LET lineH    == 20
      padY     == 6
      labelGap == 10
      headingW == estimateTextWidth(label, TIP.fontSize, 600)
      maxRowW  == MaxOf([k \in 1..Len(entries) |->
                    LET legendW == estimateTextWidth(entries[k].legendLabel, TIP.fontSize, TIP.fontWeight)
                        valW    == estimateTextWidth(entries[k].text, TIP.fontSize, TIP.fontWeight)
                    IN  QAdd(legendW, valW)])
      bgW      == QAdd(QMax(headingW, maxRowW), QInt(TIP.padX * 2))
      bgH      == padY + lineH + Len(entries) * lineH + padY
      tipY     == QMax(QInt(TIP.minY),
                       QSub(QSub(QSub(topY, QInt(TIP.offsetY)), QInt(bgH)), QInt(TIP.pointerSize)))
      bgX      == QSub(cx, QDiv(bgW, QInt(2)))
      ptrX     == cx
      ptrY     == QAdd(tipY, QInt(bgH))
      textY    == QAdd(tipY, QInt(padY + lineH \div 2))
      rowLeft  == QAdd(bgX, QInt(TIP.padX))
      rowRight == QSub(QAdd(bgX, bgW), QInt(TIP.padX))
  IN  <<Elem("rect",
             << <<"x", r(bgX)>>, <<"y", r(tipY)>>, <<"width", r(bgW)>>, <<"height", QInt(bgH)>>,
                <<"rx", QInt(TIP.rx)>>, <<"class", "xychart-tip xychart-tip-bg">> >>,
             <<>>),
        tipPointer(ptrX, ptrY),
        Elem("text",
             << <<"x", r(cx)>>, <<"y", r(textY)>>, <<"text-anchor", "middle">>,
                <<"font-weight", QInt(600)>>, <<"font-size", QInt(TIP.fontSize)>>,
                <<"dy", TEXT_BASELINE_SHIFT>>, <<"class", "xychart-tip xychart-tip-text">> >>,
             escapeXml(label))>>
        \o tipRows(entries, 1, textY, lineH, rowLeft, rowRight)

multiTooltipAbove(cx, topY, label, entries) ==
  LET lineH    == 20
      padY     == 6
      labelGap == 10
      headingW == estimateTextWidth(label, TIP.fontSize, 600)
      maxRowW  == MaxOf([k \in 1..Len(entries) |->
                    LET legendW == estimateTextWidth(entries[k].legendLabel, TIP.fontSize, TIP.fontWeight)
                        valW    == estimateTextWidth(entries[k].text, TIP.fontSize, TIP.fontWeight)
                    IN  QAdd(QAdd(legendW, QInt(labelGap)), valW)])
      bgW      == QAdd(QMax(headingW, maxRowW), QInt(TIP.padX * 2))
      bgH      == padY + lineH + Len(entries) * lineH + padY
      tipY     == QMax(QInt(TIP.minY),
                       QSub(QSub(QSub(topY, QInt(TIP.offsetY)), QInt(bgH)), QInt(TIP.pointerSize)))
      bgX      == QSub(cx, QDiv(bgW, QInt(2)))
      ptrX     == cx
      ptrY     == QAdd(tipY, QInt(bgH))
      textY    == QAdd(tipY, QInt(padY + lineH \div 2))
      rowLeft  == QAdd(bgX, QInt(TIP.padX))
      rowRight == QSub(QAdd(bgX, bgW), QInt(TIP.padX))
  IN  <<Elem("rect",
             << <<"x", r(bgX)>>, <<"y", r(tipY)>>, <<"width", r(bgW)>>, <<"height", QInt(bgH)>>,
                <<"rx", QInt(TIP.rx)>>, <<"class", "xychart-tip xychart-tip-bg">> >>,
             <<>>),
        tipPointer(ptrX, ptrY),
        Elem("text",
             << <<"x", r(cx)>>, <<"y", r(textY)>>, <<"text-anchor", "middle">>,
                <<"font-weight", QInt(600)>>, <<"font-size", QInt(TIP.fontSize)>>,
                <<"dy", TEXT_BASELINE_SHIFT>>, <<"class", "xychart-tip xychart-tip-text">> >>,
             escapeXml(label))>>
        \o tipRows(entries, 1, textY, lineH, rowLeft, rowRight)

(***************************************************************************)
(* xychart/renderer.ts: formatTipValue                                     *)
(* The result is a string: the digits the code prints.                     *)
(***************************************************************************)
DigitChars == <<"0", "1", "2", "3", "4", "5", "6", "7", "8", "9">>

\* the decimal digits of a natural number
RECURSIVE digitsOf(_)
digitsOf(n) ==
  IF n < 10 THEN <<DigitChars[n + 1]>> ELSE Append(digitsOf(n \div 10), DigitChars[(n % 10) + 1])

\* the en-US grouping: a comma before every group of three digits from the right
RECURSIVE groupThousands(_)
groupThousands(ds) ==
  IF Len(ds) <= 3 THEN ds
  ELSE groupThousands(SubSeq(ds, 1, Len(ds) - 3)) \o <<",">> \o SubSeq(ds, Len(ds) - 2, Len(ds))

\* Number.isInteger
isInteger(v) == IsFinite(v) /\ v[2] = 1

\* String of a non-finite number
nonFiniteString(v) ==
  IF IsNaN(v) THEN <<"N", "a", "N">>
  ELSE (IF v[1] < 0 THEN <<"-">> ELSE <<>>) \o <<"I", "n", "f", "i", "n", "i", "t", "y">>

\* v.toLocaleString('en-US') of an integer v
toLocaleString(v) ==
  (IF v[1] < 0 THEN <<"-">> ELSE <<>>) \o groupThousands(digitsOf(Abs(v[1])))

\* v.toFixed(f) for f in {0, 1}: the sign of v, then the nearest multiple of
\* 10^-f to |v| (the larger one on a tie), with f digits after the point
toFixed(v, f) ==
  IF ~IsFinite(v) THEN nonFiniteString(v)
  ELSE LET n  == QRound(QMul(QAbs(v), QInt(IF f = 1 THEN 10 ELSE 1)))
           ds == digitsOf(n)
           s  == IF v[1] < 0 THEN <<"-">> ELSE <<>>
       IN  IF f = 0 THEN s \o ds
           ELSE LET padded == IF Len(ds) < 2 THEN <<"0">> \o ds ELSE ds
                IN  s \o SubSeq(padded, 1, Len(padded) - 1) \o <<".">>
                      \o SubSeq(padded, Len(padded), Len(padded))

formatTipValue_alwaysOneDecimal(v) ==
  IF isInteger(v) THEN toLocaleString(v)
  ELSE toFixed(v, 1)

formatTipValue(v) ==
  IF isInteger(v) THEN toLocaleString(v)
  ELSE toFixed(v, IF QLt(QAbs(v), QInt(10)) THEN 1 ELSE 0)

(***************************************************************************)
(* xychart/renderer.ts: chartStyles                                        *)
(* A chart is a record of the positioned model: bars, lines, xAxis, yAxis, *)
(* gridLines, plotArea, horizontal, title, legend, width, height.  An      *)
(* optional field that is absent is the empty sequence.  A colorIndex and  *)
(* a seriesIndex are integers; coordinates and values are numbers.         *)
(* The style element's text is the record of the blocks it is built from.  *)
(***************************************************************************)
CHART_ACCENT_FALLBACK == <<"#", "3", "b", "8", "2", "f", "6">>

\* the elements of a set of integers in ascending order: [...s].sort((a, b) => a - b)
RECURSIVE sortAscending(_)
sortAscending(s) ==
  IF s = {} THEN <<>>
  ELSE LET m == CHOOSE a \in s : \A b \in s : a <= b
       IN  <<m>> \o sortAscending(s \ {m})

colorIndices_alwaysAccent(chart) ==
  { chart.bars[k].colorIndex : k \in 1..Len(chart.bars) }
    \cup { chart.lines[k].colorIndex : k \in 1..Len(chart.lines) } \cup {0}

\* the Set colorIndices of chartStyles
colorIndices(chart) ==
  { chart.bars[k].colorIndex : k \in 1..Len(chart.bars) }
    \cup { chart.lines[k].colorIndex : k \in 1..Len(chart.lines) }

colorVarName(idx) == "--xychart-color-" \o ToString(idx)

barFillName(idx) == "--xychart-bar-fill-" \o ToString(idx)

\* the value bound to --xychart-color-idx
colorVarValue_alwaysDerived(idx, accentHex, bgColor) ==
  getSeriesColor(idx, accentHex, bgColor)

colorVarValue(idx, accentHex, bgColor) ==
  IF idx = 0 THEN <<"var", "--accent", CHART_ACCENT_FALLBACK>>
  ELSE getSeriesColor(idx, accentHex, bgColor)

\* the two declarations pushed for every index of idxs, a sequence
RECURSIVE colorVarDefs(_, _, _)
colorVarDefs(idxs, accentHex, bgColor) ==
  IF idxs = <<>> THEN <<>>
  ELSE LET idx == Head(idxs)
       IN  << <<colorVarName(idx), colorVarValue(idx, accentHex, bgColor)>>,
              <<barFillName(idx), <<"color-mix", "--bg", 75, colorVarName(idx), 25>> >> >>
             \o colorVarDefs(Tail(idxs), accentHex, bgColor)

\* the three rules pushed for every index of idxs: <<selector, declarations>>
RECURSIVE seriesRules(_)
seriesRules(idxs) ==
  IF idxs = <<>> THEN <<>>
  ELSE LET idx == Head(idxs)
           n   == ToString(idx)
       IN  << <<".xychart-bar.xychart-color-" \o n,
                << <<"stroke", colorVarName(idx)>>, <<"fill", barFillName(idx)>> >> >>,
              <<"path.xychart-color-" \o n \o ", line.xychart-color-" \o n,
                << <<"stroke", colorVarName(idx)>> >> >>,
              <<"circle.xychart-color-" \o n, << <<"fill", colorVarName(idx)>> >> >> >>
             \o seriesRules(Tail(idxs))

tipRules_always(interactive) ==
  <<".xychart-tip", ".xychart-tip-bg", ".xychart-tip-text", ".xychart-tip-ptr",
    ".xychart-bar-group:hover .xychart-tip, .xychart-dot-group:hover .xychart-tip">>

tipRules(interactive) ==
  IF interactive
    THEN <<".xychart-tip", ".xychart-tip-bg", ".xychart-tip-text", ".xychart-tip-ptr",
           ".xychart-bar-group:hover .xychart-tip, .xychart-dot-group:hover .xychart-tip">>
    ELSE <<>>

baseRules ==
  <<".xychart-grid", ".xychart-bar", ".xychart-line", ".xychart-line-shadow", ".xychart-dot",
    ".xychart-label", ".xychart-axis-title", ".xychart-title">>

chartStyles(chart, interactive, sparse, themeAccent, bgColor) ==
  LET accentHex == IF themeAccent = NoColor THEN CHART_ACCENT_FALLBACK ELSE themeAccent
      idxs      == sortAscending(colorIndices(chart))
      defs      == colorVarDefs(idxs, accentHex, bgColor)
  IN  [style |-> Elem("style", <<>>,
                      [base           |-> baseRules,
                       colorVarsBlock |-> defs,
                       seriesRules    |-> seriesRules(idxs),
                       tipRules       |-> tipRules(interactive)]),
       defs  |-> <<>>]

(***************************************************************************)
(* xychart/renderer.ts: renderXYChartSvg, step 1, the dot grid             *)
(***************************************************************************)
\* Math.ceil of a finite rational, an integer
QCeil(a) == 0 - QFloor(QNeg(a))

gridGap_floorCells(ticks, plotSize) ==
  LET base == IF Len(ticks) > 1 THEN QAbs(QSub(ticks[2], ticks[1])) ELSE QDiv(plotSize, QInt(6))
      cells == QFloor(QDiv(base, QInt(20)))
  IN  QDiv(base, QInt(IF cells > 1 THEN cells ELSE 1))

\* the spacing along one axis: the distance between the first two tick
\* positions, or a sixth of the plot dimension, divided into cells of about 20
gridGap(ticks, plotSize) ==
  LET base == IF Len(ticks) > 1 THEN QAbs(QSub(ticks[2], ticks[1])) ELSE QDiv(plotSize, QInt(6))
      cells == QRound(QDiv(base, QInt(20)))
  IN  QDiv(base, QInt(IF cells > 1 THEN cells ELSE 1))

\* ticks[0] ?? origin
gridAnchor(ticks, origin) == IF Len(ticks) > 0 THEN ticks[1] ELSE origin

gridStart_roundedDown(anchor, origin, gap) ==
  IF gap = QInt(0) THEN QNaN
  ELSE QSub(anchor, QMul(QInt(QFloor(QDiv(QSub(anchor, origin), gap))), gap))

\* anchor - Math.ceil((anchor - origin) / gap) * gap; a zero gap divides to
\* NaN or an infinity, which times zero is NaN
gridStart(anchor, origin, gap) ==
  IF gap = QInt(0) THEN QNaN
  ELSE QSub(anchor, QMul(QInt(QCeil(QDiv(QSub(anchor, origin), gap))), gap))

\* the values of the loop variable of for (v = start; v <= bound; v += gap)
RECURSIVE gridCoords(_, _, _)
gridCoords(start, gap, bound) ==
  IF ~QLe(start, bound) THEN <<>>
  ELSE <<start>> \o gridCoords(QAdd(start, gap), gap, bound)

gridDot(x, y) ==
  Elem("circle", << <<"cx", r(x)>>, <<"cy", r(y)>>, <<"r", QNorm(3, 2)>>,
                    <<"class", "xychart-grid">> >>, <<>>)

\* the circles of the rows from row k on, each row from left to right
RECURSIVE gridRows(_, _, _)
gridRows(xs, ys, k) ==
  IF k > Len(ys) THEN <<>>
  ELSE [i \in 1..Len(xs) |-> gridDot(xs[i], ys[k])] \o gridRows(xs, ys, k + 1)

dotGrid(chart) ==
  LET plotArea == chart.plotArea
      xTicks   == [k \in 1..Len(chart.xAxis.ticks) |-> chart.xAxis.ticks[k].x]
      yVals    == IF chart.horizontal
                    THEN [k \in 1..Len(chart.yAxis.ticks) |-> chart.yAxis.ticks[k].y]
                    ELSE [k \in 1..Len(chart.gridLines) |-> chart.gridLines[k].y1]
      xGap     == gridGap(xTicks, plotArea.width)
      yGap     == gridGap(yVals, plotArea.height)
      xStart   == gridStart(gridAnchor(xTicks, plotArea.x), plotArea.x, xGap)
      yStart   == gridStart(gridAnchor(yVals, plotArea.y), plotArea.y, yGap)
      xs       == gridCoords(xStart, xGap, QAdd(QAdd(plotArea.x, plotArea.width), QNorm(1, 2)))
      ys       == gridCoords(yStart, yGap, QAdd(QAdd(plotArea.y, plotArea.height), QNorm(1, 2)))
  IN  gridRows(xs, ys, 1)

\* the loop of one axis, for (v = start; v <= bound; v += gap): its gap,
\* its start and its bound
gridAxis(ticks, origin, size) ==
  LET gap == gridGap(ticks, size)
  IN  [gap   |-> gap,
       start |-> gridStart(gridAnchor(ticks, origin), origin, gap),
       bound |-> QAdd(QAdd(origin, size), QNorm(1, 2))]

(***************************************************************************)
(* xychart/renderer.ts: renderXYChartSvg, steps 2 to 4: bars, lines, dots  *)
(* A group element's text is the sequence of its child elements.           *)
(***************************************************************************)
colorClass(class, colorIndex) == class \o " xychart-color-" \o ToString(colorIndex)

dataAttrs_alwaysLabel(e) ==
  << <<"data-value", e.value>>, <<"data-label", escapeXml(e.label)>> >>

\* data-value="..." and, for a non-empty label, data-label="..."
dataAttrs(e) ==
  << <<"data-value", e.value>> >>
    \o (IF e.label # <<>> THEN << <<"data-label", escapeXml(e.label)>> >> ELSE <<>>)

\* label ? `${label}: ${tipText}` : tipText
tipTitle(label, tipText) == IF label # <<>> THEN label \o <<":", " ">> \o tipText ELSE tipText

barPathElem(chart, bar) ==
  LET barPath == IF chart.horizontal
                   THEN roundedRightBarPath(bar.x, bar.y, bar.width, bar.height,
                                            QInt(CHART_FONT.barRadius))
                   ELSE roundedTopBarPath(bar.x, bar.y, bar.width, bar.height,
                                          QInt(CHART_FONT.barRadius))
  IN  Elem("path",
           << <<"d", barPath>>, <<"class", colorClass("xychart-bar", bar.colorIndex)>> >>
             \o dataAttrs(bar),
           <<>>)

barGroup(bar) ==
  LET tipText == formatTipValue(bar.value)
      tip     == tooltipAbove(QAdd(bar.x, QDiv(bar.width, QInt(2))), bar.y, tipText)
  IN  Elem("g", << <<"class", "xychart-bar-group">> >>,
           <<Elem("rect",
                  << <<"x", r(bar.x)>>, <<"y", r(bar.y)>>, <<"width", r(bar.width)>>,
                     <<"height", r(bar.height)>>, <<"fill", "transparent">> >>,
                  <<>>),
             Elem("title", <<>>, escapeXml(tipTitle(bar.label, tipText)))>>
             \o tip)

\* the shadow and the crisp stroke of the lines from line k on; an empty line is skipped
RECURSIVE linePaths(_, _)
linePaths(lines, k) ==
  IF k > Len(lines) THEN <<>>
  ELSE LET line == lines[k]
           d    == smoothCurvePath(line.points)
       IN  (IF Len(line.points) = 0 THEN <<>>
            ELSE <<Elem("path",
                        << <<"d", d>>,
                           <<"class", colorClass("xychart-line-shadow", line.colorIndex)>>,
                           <<"transform", <<"translate", 0, 2>> >> >>,
                        <<>>),
                   Elem("path",
                        << <<"d", d>>, <<"class", colorClass("xychart-line", line.colorIndex)>> >>,
                        <<>>)>>)
             \o linePaths(lines, k + 1)

\* the Map lineLegendLabels, looked up: the label of the last line item of
\* the legend with this seriesIndex, <<>> when there is none
RECURSIVE lineLegendLabel(_, _, _)
lineLegendLabel(legend, k, seriesIndex) ==
  IF k = 0 THEN <<>>
  ELSE IF legend[k].type = "line" /\ legend[k].seriesIndex = seriesIndex THEN legend[k].label
  ELSE lineLegendLabel(legend, k - 1, seriesIndex)

rowLegendLabel_zeroBased(legend, seriesIndex) ==
  LET found == lineLegendLabel(legend, Len(legend), seriesIndex)
  IN  IF found # <<>> THEN found ELSE <<"L", "i", "n", "e", " ">> \o digitsOf(seriesIndex)

\* lineLegendLabels.get(seriesIndex) || `Line ${seriesIndex + 1}`
rowLegendLabel(legend, seriesIndex) ==
  LET found == lineLegendLabel(legend, Len(legend), seriesIndex)
  IN  IF found # <<>> THEN found ELSE <<"L", "i", "n", "e", " ">> \o digitsOf(seriesIndex + 1)

\* the DotEntry records of the lines from line k on, line by line, point by point
RECURSIVE dotEntries(_, _)
dotEntries(lines, k) ==
  IF k > Len(lines) THEN <<>>
  ELSE LET line == lines[k]
       IN  [i \in 1..Len(line.points) |->
              [x |-> line.points[i].x, y |-> line.points[i].y, value |-> line.points[i].value,
               label |-> line.points[i].label, seriesIndex |-> line.seriesIndex,
               colorIndex |-> line.colorIndex]]
             \o dotEntries(lines, k + 1)

RECURSIVE dotColumns_oneEntryPerKey(_)
dotColumns_oneEntryPerKey(entries) ==
  IF entries = <<>> THEN <<>>
  ELSE LET key == r(Head(entries).x)
       IN  << <<Head(entries)>> >>
             \o dotColumns_oneEntryPerKey(SelectSeq(entries, LAMBDA e : r(e.x) # key))

\* the Map columns: the entries grouped by the key r(x), the keys in the
\* order of their first entry, the entries of a key in their order
RECURSIVE dotColumns(_)
dotColumns(entries) ==
  IF entries = <<>> THEN <<>>
  ELSE LET key == r(Head(entries).x)
       IN  <<SelectSeq(entries, LAMBDA e : r(e.x) = key)>>
             \o dotColumns(SelectSeq(entries, LAMBDA e : r(e.x) # key))

dotCircle(e) ==
  Elem("circle",
       << <<"cx", r(e.x)>>, <<"cy", r(e.y)>>, <<"r", QInt(CHART_FONT.dotRadius)>>,
          <<"class", colorClass("xychart-dot", e.colorIndex)>> >> \o dataAttrs(e),
       <<>>)

\* Math.min(...entries.map(e => e.y)) and Math.max(...) of a non-empty column
RECURSIVE columnTopY(_)
columnTopY(entries) ==
  IF Len(entries) = 1 THEN entries[1].y ELSE QMin(entries[1].y, columnTopY(Tail(entries)))

RECURSIVE columnBotY(_)
columnBotY(entries) ==
  IF Len(entries) = 1 THEN entries[1].y ELSE QMax(entries[1].y, columnBotY(Tail(entries)))

\* valStrs.join(' · ')
RECURSIVE joinValues(_)
joinValues(strs) ==
  IF strs = <<>> THEN <<>>
  ELSE IF Len(strs) = 1 THEN strs[1]
  ELSE strs[1] \o <<" ", "·", " ">> \o joinValues(Tail(strs))

\* the overlay group of a column of more than one point
multiColumnGroup(legend, entries) ==
  LET cx         == entries[1].x
      label      == entries[1].label
      topY       == columnTopY(entries)
      botY       == columnBotY(entries)
      hitPad     == QInt(CHART_FONT.dotRadius * 3)
      hitArea    == Elem("rect",
                         << <<"x", r(QSub(cx, hitPad))>>, <<"y", r(QSub(topY, hitPad))>>,
                            <<"width", r(QMul(hitPad, QInt(2)))>>,
                            <<"height", r(QAdd(QSub(botY, topY), QMul(hitPad, QInt(2))))>>,
                            <<"fill", "transparent">>, <<"class", "xychart-hit">> >>,
                         <<>>)
      tipEntries == [k \in 1..Len(entries) |->
                       [text        |-> formatTipValue(entries[k].value),
                        legendLabel |-> rowLegendLabel(legend, entries[k].seriesIndex)]]
      tip        == multiTooltipAbove(cx, QSub(topY, QInt(CHART_FONT.dotRadius)), label, tipEntries)
      valStrs    == [k \in 1..Len(entries) |-> tipEntries[k].text]
      titleText  == tipTitle(label, joinValues(valStrs))
  IN  Elem("g", << <<"class", "xychart-dot-group">> >>,
           <<hitArea>> \o [k \in 1..Len(entries) |-> dotCircle(entries[k])]
             \o <<Elem("title", <<>>, escapeXml(titleText))>> \o tip)

singleHitArea_always(sparse, cx, e) ==
  <<Elem("circle",
         << <<"cx", r(cx)>>, <<"cy", r(e.y)>>, <<"r", QInt(CHART_FONT.dotRadius * 3)>>,
            <<"fill", "transparent">>, <<"class", "xychart-hit">> >>,
         <<>>)>>

\* the hit-region of a column of one point: only a sparse chart has one
singleHitArea(sparse, cx, e) ==
  IF sparse
    THEN <<Elem("circle",
                << <<"cx", r(cx)>>, <<"cy", r(e.y)>>, <<"r", QInt(CHART_FONT.dotRadius * 3)>>,
                   <<"fill", "transparent">>, <<"class", "xychart-hit">> >>,
                <<>>)>>
    ELSE <<>>

\* the overlay group of a column of one point
singleColumnGroup(sparse, entries) ==
  LET cx      == entries[1].x
      e       == entries[1]
      tipText == formatTipValue(e.value)
      tip     == tooltipAbove(cx, QSub(e.y, QInt(CHART_FONT.dotRadius)), tipText)
  IN  Elem("g", << <<"class", "xychart-dot-group">> >>,
           singleHitArea(sparse, cx, e)
             \o <<dotCircle(e), Elem("title", <<>>, escapeXml(tipTitle(e.label, tipText)))>>
             \o tip)

\* what step 4 pushes to parts: the static dots of a sparse chart
RECURSIVE inlineDots(_, _, _, _)
inlineDots(columns, k, interactive, sparse) ==
  IF k > Len(columns) \/ interactive \/ ~sparse THEN <<>>
  ELSE [i \in 1..Len(columns[k]) |-> dotCircle(columns[k][i])]
         \o inlineDots(columns, k + 1, interactive, sparse)

\* what step 4 pushes to dotOverlay: one group for every column
RECURSIVE dotOverlay(_, _, _, _, _)
dotOverlay(legend, columns, k, interactive, sparse) ==
  IF k > Len(columns) \/ ~interactive THEN <<>>
  ELSE <<IF Len(columns[k]) > 1 THEN multiColumnGroup(legend, columns[k])
         ELSE singleColumnGroup(sparse, columns[k])>>
         \o dotOverlay(legend, columns, k + 1, interactive, sparse)

(***************************************************************************)
(* xychart/renderer.ts: renderXYChartSvg, steps 5 to 9 and the assembly    *)
(***************************************************************************)
tickLabel(tick) ==
  Elem("text",
       << <<"x", tick.labelX>>, <<"y", tick.labelY>>, <<"text-anchor", tick.textAnchor>>,
          <<"font-size", QInt(CHART_FONT.labelSize)>>, <<"font-weight", QInt(CHART_FONT.labelWeight)>>,
          <<"dy", TEXT_BASELINE_SHIFT>>, <<"class", "xychart-label">> >>,
       escapeXml(tick.label))

tickLabels(chart) ==
  [k \in 1..Len(chart.xAxis.ticks) |-> tickLabel(chart.xAxis.ticks[k])]
    \o [k \in 1..Len(chart.yAxis.ticks) |-> tickLabel(chart.yAxis.ticks[k])]

\* the title of one axis; title is <<>> or <<t>>
axisTitle(title) ==
  IF Len(title) = 0 THEN <<>>
  ELSE LET t == title[1]
           transform == IF t.rotate # QInt(0)
                          THEN << <<"transform", <<"rotate", t.rotate, t.x, t.y>> >> >>
                          ELSE <<>>
       IN  <<Elem("text",
                  << <<"x", t.x>>, <<"y", t.y>>, <<"text-anchor", "middle">> >> \o transform
                    \o << <<"font-size", QInt(CHART_FONT.axisTitleSize)>>,
                          <<"font-weight", QInt(CHART_FONT.axisTitleWeight)>>,
                          <<"dy", TEXT_BASELINE_SHIFT>>, <<"class", "xychart-axis-title">> >>,
                  escapeXml(t.text))>>

axisTitles(chart) == axisTitle(chart.xAxis.title) \o axisTitle(chart.yAxis.title)

chartTitle(chart) ==
  IF Len(chart.title) = 0 THEN <<>>
  ELSE LET t == chart.title[1]
       IN  <<Elem("text",
                  << <<"x", t.x>>, <<"y", t.y>>, <<"text-anchor", "middle">>,
                     <<"font-size", QInt(CHART_FONT.titleSize)>>,
                     <<"font-weight", QInt(CHART_FONT.titleWeight)>>,
                     <<"dy", TEXT_BASELINE_SHIFT>>, <<"class", "xychart-title">> >>,
                  escapeXml(t.text))>>

\* the swatch and the label of one legend item
legendItem(item) ==
  LET swatchW == 14
      swatchH == 14
      gap     == 6
      swatch  == IF item.type = "bar"
                   THEN Elem("rect",
                             << <<"x", item.x>>, <<"y", QSub(item.y, QDiv(QInt(swatchH), QInt(2)))>>,
                                <<"width", QInt(swatchW)>>, <<"height", QInt(swatchH)>>,
                                <<"rx", QInt(3)>>,
                                <<"class", colorClass("xychart-bar", item.colorIndex)>> >>,
                             <<>>)
                   ELSE Elem("line",
                             << <<"x1", item.x>>, <<"y1", item.y>>,
                                <<"x2", QAdd(item.x, QInt(swatchW))>>, <<"y2", item.y>>,
                                <<"stroke-width", QNorm(5, 2)>>, <<"stroke-linecap", "round">>,
                                <<"class", colorClass("xychart-legend-line", item.colorIndex)>> >>,
                             <<>>)
  IN  <<swatch,
        Elem("text",
             << <<"x", QAdd(item.x, QInt(swatchW + gap))>>, <<"y", item.y>>,
                <<"text-anchor", "start">>,
                <<"font-size", QInt(CHART_FONT.legendSize)>>,
                <<"font-weight", QInt(CHART_FONT.legendWeight)>>,
                <<"dy", TEXT_BASELINE_SHIFT>>, <<"class", "xychart-label">> >>,
             escapeXml(item.label))>>

RECURSIVE legendItems(_, _)
legendItems(legend, k) ==
  IF k > Len(legend) THEN <<>> ELSE legendItem(legend[k]) \o legendItems(legend, k + 1)

maxColorIdx_barsOnly(chart) ==
  LET s == { chart.bars[k].colorIndex : k \in 1..Len(chart.bars) } \cup {0}
  IN  CHOOSE m \in s : \A i \in s : i <= m

\* Math.max(0, ...bars.map(b => b.colorIndex), ...lines.map(l => l.colorIndex))
maxColorIdx(chart) ==
  LET s == colorIndices(chart) \cup {0}
  IN  CHOOSE m \in s : \A i \in s : i <= m

\* Math.max(...lines.map(l => l.points.length), 0)
maxLinePoints(chart) ==
  LET s == { Len(chart.lines[k].points) : k \in 1..Len(chart.lines) } \cup {0}
  IN  CHOOSE m \in s : \A i \in s : i <= m

isSparse_noUpperLimit(n) == n > 0

isSparse(n) == n > 0 /\ n <= 12

\* The opening tag built by svgOpenTag of ../theme.ts, an <svg ...> element
\* carrying the size, the theme colours and the transparency.
svgOpenTag(width, height, colors, transparent) ==
  Elem("svg",
       << <<"width", width>>, <<"height", height>>, <<"colors", colors>>,
          <<"transparent", transparent>> >>,
       <<>>)

\* The base style block built by buildStyleBlock of ../theme.ts.
buildStyleBlock(font, hasMonoFont) ==
  Elem("style", << <<"font", font>>, <<"mono", hasMonoFont>> >>, <<>>)

\* svgOpenTag(...).replace('<svg ', `<svg data-xychart-colors="${maxColorIdx}" `)
stampColors(tag, idx) ==
  IF tag.tag = "svg" /\ Len(tag.attrs) > 0
    THEN Elem("svg", << <<"data-xychart-colors", idx>> >> \o tag.attrs, tag.text)
    ELSE tag

\* the bar paths pushed to parts, and the groups pushed to barOverlay
barPaths(chart) == [k \in 1..Len(chart.bars) |-> barPathElem(chart, chart.bars[k])]

barOverlay(chart, interactive) ==
  IF interactive THEN [k \in 1..Len(chart.bars) |-> barGroup(chart.bars[k])] ELSE <<>>

\* the order in which the layers reach parts: steps 1 to 8, then the overlay of step 9
paintOrder_overlayBeforeLegend(grid, bars, lines, dots, labels, titles, title, legend, barGroups, dotGroups) ==
  grid \o bars \o lines \o dots \o labels \o titles \o title \o barGroups \o legend \o dotGroups

paintOrder(grid, bars, lines, dots, labels, titles, title, legend, barGroups, dotGroups) ==
  grid \o bars \o lines \o dots \o labels \o titles \o title \o legend \o barGroups \o dotGroups

\* parts.push(styles.style) and, when there are any, parts.push(styles.defs)
styleParts(styles) ==
  <<styles.style>> \o (IF styles.defs # <<>> THEN <<styles.defs>> ELSE <<>>)

\* steps 1 to 9 for the columns of dots already grouped
bodyParts(chart, interactive, sparse, columns, overlay0) ==
  paintOrder(dotGrid(chart), barPaths(chart), linePaths(chart.lines, 1),
             inlineDots(columns, 1, interactive, sparse),
             tickLabels(chart), axisTitles(chart), chartTitle(chart),
             legendItems(chart.legend, 1),
             overlay0 \o barOverlay(chart, interactive),
             dotOverlay(chart.legend, columns, 1, interactive, sparse))

\* the document for the sparse flag already computed
sparseParts(chart, colors, font, transparent, interactive, sparse, overlay0) ==
  <<stampColors(svgOpenTag(chart.width, chart.height, colors, transparent), maxColorIdx(chart)),
    buildStyleBlock(font, FALSE)>>
    \o styleParts(chartStyles(chart, interactive, sparse, colors.accent, colors.bg))
    \o bodyParts(chart, interactive, sparse,
                 IF interactive \/ sparse THEN dotColumns(dotEntries(chart.lines, 1)) ELSE <<>>,
                 overlay0)
    \o <<Elem("/svg", <<>>, <<>>)>>

\* renderXYChartSvg with barOverlay starting as overlay0; parts.join('\n')
\* is the sequence of the parts
renderParts(chart, colors, font, transparent, interactive, overlay0) ==
  sparseParts(chart, colors, font, transparent, interactive,
              isSparse(maxLinePoints(chart)), overlay0)

renderXYChartSvg_sharedOverlay(chart, colors, font, transparent, interactive) ==
  renderParts(chart, colors, font, transparent, interactive,
              IF seen = {} THEN <<>>
              ELSE SelectSeq((CHOOSE a \in seen : TRUE).out, LAMBDA e : e.tag = "g"))

renderXYChartSvg(chart, colors, font, transparent, interactive) ==
  renderParts(chart, colors, font, transparent, interactive, <<>>)

(***************************************************************************)
(* Inputs of the bar paths and of the tooltips                             *)
(***************************************************************************)
BarXs == { QInt(0), QNorm(13, 4) }

BarYs == { QInt(5), QNorm(-1, 4) }

BarWidths == { QInt(-3), QInt(0), QNorm(1, 4), QInt(10), QInt(20) }

BarHeights == { QInt(-1), QInt(0), QInt(3), QInt(16), QInt(40) }

\* the radius the renderer passes, and a zero and a negative one
BarRadii == { QInt(CHART_FONT.barRadius), QInt(0), QInt(-2) }

TipXs == { QInt(0), QInt(50), QNorm(201, 4) }

\* anchors above, at and below the top edge, and on both sides of each clamp
TipTopYs == { QInt(-10), QInt(0), QInt(4), QNorm(1079, 20), QInt(54), QInt(90), QInt(300) }

TipTexts == { <<"7">>, <<"1", ",", "0", "0", "0">>, <<"4", "3">> }

\* no heading, a short one, and one wider than every row
TipLabels == { <<>>, <<"Q", "&", "A">>, <<"Q", "u", "a", "r", "t", "e", "r", " ", "1">> }

TipEntries ==
  { [text |-> <<"7">>, legendLabel |-> <<"L", "i", "n", "e", " ", "1">>],
    [text |-> <<"1", ",", "0", "0", "0">>, legendLabel |-> <<"<", "b", ">">>] }

\* the largest number of rows of a multi-value tooltip
MaxRows == 3

RECURSIVE EntrySeqs(_)
EntrySeqs(n) ==
  IF n = 0 THEN { <<>> }
  ELSE { Append(es, e) : es \in EntrySeqs(n - 1), e \in TipEntries }

(***************************************************************************)
(* Inputs of formatTipValue                                                *)
(***************************************************************************)
\* values in eighths up to MaxEighths / 8, exact in double arithmetic: the
\* integers, the ties of both roundings, and both sides of |v| = 10
MaxEighths == 100

TipValues ==
  { QNorm(n, 8) : n \in (0 - MaxEighths)..MaxEighths }
    \cup { QInt(999), QInt(1000), QInt(-1000), QInt(100000), QInt(1234567), QInt(-1234567) }
    \cup { QNorm(1, 32), QNorm(-1, 32), QNorm(319, 32), QNorm(-319, 32), QNorm(171, 4),
           QNorm(2469, 2), QNorm(-2469, 2), QNorm(314159, 100000), QNorm(427, 10) }
    \cup { QNaN, QInf(1), QInf(-1) }

(***************************************************************************)
(* Inputs of the colour functions                                          *)
(***************************************************************************)
\* the largest series index called
MaxIndex == 92

Hex(a, b, c, d, e, f) == <<"#", a, b, c, d, e, f>>

\* accents: the fallback blue, the six hue sectors, a grey, both letter cases
AccentSamples ==
  { Hex("3", "b", "8", "2", "f", "6"), Hex("f", "f", "0", "0", "0", "0"),
    Hex("F", "5", "9", "E", "0", "B"), Hex("1", "0", "b", "9", "8", "1"),
    Hex("0", "0", "F", "F", "F", "F"), Hex("a", "8", "5", "5", "f", "7"),
    Hex("e", "c", "4", "8", "9", "9"), Hex("8", "0", "8", "0", "8", "0") }

\* backgrounds: absent, white, black, a dark theme, and the two sides of lightness 50
BgSamples ==
  { NoColor, Hex("f", "f", "f", "f", "f", "f"), Hex("0", "0", "0", "0", "0", "0"),
    Hex("1", "8", "1", "8", "1", "B"), Hex("8", "0", "7", "f", "7", "f"),
    Hex("7", "f", "7", "f", "7", "f") }

MixSamples ==
  { Hex("0", "0", "0", "0", "0", "0"), Hex("f", "f", "f", "f", "f", "f"),
    Hex("3", "B", "8", "2", "F", "6"), Hex("1", "8", "1", "8", "1", "b"),
    Hex("8", "0", "4", "0", "c", "0"), Hex("0", "1", "f", "e", "7", "f") }

\* ratios in quarters, so that the code's double arithmetic is exact: -1/2 .. 2
RatioSamples == { QNorm(n, 4) : n \in {-2, -1, 0, 1, 2, 3, 4, 5, 6, 8} }

(***************************************************************************)
(* Inputs of renderXYChartSvg                                              *)
(***************************************************************************)
Str1(a) == <<a>>

ChartBar(x, y, w, h, value, label, colorIndex) ==
  [x |-> x, y |-> y, width |-> w, height |-> h, value |-> value, label |-> label,
   colorIndex |-> colorIndex]

\* a labelled bar on the accent, an unlabelled bar with a fractional value,
\* a narrow bar whose label needs escaping
BarSamples ==
  { ChartBar(QInt(10), QNorm(81, 4), QInt(12), QInt(30), QInt(10), Str1("A"), 0),
    ChartBar(QInt(30), QInt(5), QInt(12), QInt(45), QNorm(51, 2), <<>>, 1),
    ChartBar(QInt(50), QInt(40), QInt(3), QInt(10), QInt(1000), <<"<", "b", ">">>, 3) }

\* the largest number of bars of a chart
MaxBars == 2

RECURSIVE BarSeqs(_)
BarSeqs(n) ==
  IF n = 0 THEN { <<>> }
  ELSE { Append(bs, b) : bs \in BarSeqs(n - 1), b \in BarSamples }

LinePoint(x, y, value, label) == [x |-> x, y |-> y, value |-> value, label |-> label]

ChartLine(points, seriesIndex, colorIndex) ==
  [points |-> points, seriesIndex |-> seriesIndex, colorIndex |-> colorIndex]

\* n points on a level line, 5 apart from x = 10
LevelPoints(n) == [k \in 1..n |-> LinePoint(QInt(5 + 5 * k), QInt(30), QInt(k), <<>>)]

LineTwo ==
  ChartLine(<<LinePoint(QInt(10), QInt(30), QInt(7), Str1("Q")),
              LinePoint(QNorm(751, 25), QInt(12), QNorm(25, 8), <<>>)>>, 0, 0)

\* its first point is in the column of the first point of LineTwo
LineShare ==
  ChartLine(<<LinePoint(QNorm(251, 25), QNorm(1, 25), QInt(1000), <<>>),
              LinePoint(QInt(50), QInt(20), QNorm(171, 4), Str1("R"))>>, 1, 4)

\* both points in one column
LineColumn ==
  ChartLine(<<LinePoint(QInt(20), QInt(9), QInt(3), <<>>),
              LinePoint(QNorm(501, 25), QInt(28), QInt(4), <<>>)>>, 2, 2)

LineEmpty == ChartLine(<<>>, 0, 5)

LineSparse == ChartLine(LevelPoints(12), 0, 1)

LineDense == ChartLine(LevelPoints(13), 1, 2)

\* no line, an empty line, one point, two lines sharing a column, a line of
\* twelve and one of thirteen points, a dense line beside a short one
LineLists ==
  { <<>>, <<LineEmpty>>, <<ChartLine(LevelPoints(1), 0, 0)>>, <<LineTwo>>, <<LineTwo, LineShare>>,
    <<LineColumn>>, <<LineShare, LineEmpty, LineTwo>>, <<LineSparse>>, <<LineDense>>,
    <<LineDense, LineTwo>> }

Tick(x, y, label) ==
  [x |-> x, y |-> y, labelX |-> x, labelY |-> y, textAnchor |-> "middle", label |-> label]

AxisTitle(x, y, text, rotate) == [x |-> x, y |-> y, text |-> text, rotate |-> rotate]

LegendItem(type, seriesIndex, colorIndex, x, y, label) ==
  [type |-> type, seriesIndex |-> seriesIndex, colorIndex |-> colorIndex, x |-> x, y |-> y,
   label |-> label]

PlotSample == [x |-> QInt(10), y |-> QInt(5), width |-> QInt(40), height |-> QInt(45)]

\* everything of a chart but its bars and lines, with the theme colours:
\* nothing at all; a vertical chart with ticks, titles and a legend; a
\* horizontal chart whose line legend entry has an empty label; a chart with
\* one tick and two legend entries for one series; grid lines alone
Settings ==
  { [horizontal |-> FALSE, xTicks |-> <<>>, yTicks |-> <<>>, gridLines |-> <<>>,
     xTitle |-> <<>>, yTitle |-> <<>>, title |-> <<>>, legend |-> <<>>,
     colors |-> [accent |-> NoColor, bg |-> Hex("f", "f", "f", "f", "f", "f")]],
    [horizontal |-> FALSE,
     xTicks |-> <<Tick(QInt(10), QInt(60), Str1("a")), Tick(QInt(50), QInt(60), Str1("&"))>>,
     yTicks |-> <<Tick(QInt(2), QInt(50), Str1("0"))>>,
     gridLines |-> <<[y1 |-> QInt(50)], [y1 |-> QInt(20)]>>,
     xTitle |-> <<AxisTitle(QInt(30), QInt(70), Str1("x"), QInt(0))>>,
     yTitle |-> <<AxisTitle(QInt(1), QInt(27), Str1("y"), QInt(-90))>>,
     title |-> <<>>,
     legend |-> <<LegendItem("bar", 0, 0, QInt(60), QInt(10), Str1("B")),
                  LegendItem("line", 0, 0, QInt(60), QInt(25), <<"<", "L", ">">>)>>,
     colors |-> [accent |-> Hex("F", "5", "9", "E", "0", "B"),
                 bg |-> Hex("1", "8", "1", "8", "1", "B")]],
    [horizontal |-> TRUE,
     xTicks |-> <<>>,
     yTicks |-> <<Tick(QInt(2), QInt(5), Str1("p")), Tick(QInt(2), QInt(35), Str1("q"))>>,
     gridLines |-> <<>>,
     xTitle |-> <<>>, yTitle |-> <<>>,
     title |-> <<[x |-> QInt(30), y |-> QInt(2), text |-> Str1("T")]>>,
     legend |-> <<LegendItem("line", 1, 4, QInt(60), QInt(10), <<>>)>>,
     colors |-> [accent |-> NoColor, bg |-> Hex("1", "8", "1", "8", "1", "B")]],
    [horizontal |-> FALSE,
     xTicks |-> <<Tick(QInt(20), QInt(60), Str1("a"))>>, yTicks |-> <<>>,
     gridLines |-> <<[y1 |-> QInt(50)]>>,
     xTitle |-> <<>>, yTitle |-> <<>>, title |-> <<>>,
     legend |-> <<LegendItem("line", 0, 0, QInt(60), QInt(10), Str1("K")),
                  LegendItem("line", 0, 0, QInt(60), QInt(25), Str1("L"))>>,
     colors |-> [accent |-> Hex("1", "0", "b", "9", "8", "1"), bg |-> NoColor]],
    [horizontal |-> FALSE, xTicks |-> <<>>, yTicks |-> <<>>,
     gridLines |-> <<[y1 |-> QInt(50)], [y1 |-> QInt(20)]>>,
     xTitle |-> <<>>, yTitle |-> <<>>, title |-> <<>>, legend |-> <<>>,
     colors |-> [accent |-> Hex("e", "c", "4", "8", "9", "9"),
                 bg |-> Hex("1", "8", "1", "8", "1", "B")]] }

Chart(bars, lines, s) ==
  [width |-> QInt(80), height |-> QInt(80), horizontal |-> s.horizontal, plotArea |-> PlotSample,
   bars |-> bars, lines |-> lines,
   xAxis |-> [ticks |-> s.xTicks, title |-> s.xTitle],
   yAxis |-> [ticks |-> s.yTicks, title |-> s.yTitle],
   gridLines |-> s.gridLines, title |-> s.title, legend |-> s.legend]

RenderInput(bars, lines, s) == [chart |-> Chart(bars, lines, s), colors |-> s.colors]

\* the charts rendered again and again: an empty one, one with a bar, one
\* with two lines sharing a column
RepeatInputs ==
  { RenderInput(<<>>, <<>>, s) : s \in { t \in Settings : t.colors.accent = NoColor /\ t.legend = <<>> } }
    \cup { RenderInput(bs, <<>>, s) : bs \in { b \in BarSeqs(1) : b[1].colorIndex = 0 },
                                      s \in { t \in Settings : t.horizontal } }
    \cup { RenderInput(<<>>, <<LineTwo, LineShare>>, s) :
             s \in { t \in Settings : t.title # <<>> } }

(***************************************************************************)
(* Inputs of the dot-grid loops: the tick positions, the plot-area origin  *)
(* and the plot-area dimension of one axis                                 *)
(***************************************************************************)
\* the largest number of loop steps of one call that is followed
MaxGridSteps == 150

GridAxis(ticks, origin, size) == [ticks |-> ticks, origin |-> origin, size |-> size]

\* no ticks over a positive, a zero and two negative dimensions; one tick
\* inside and one left of the plot area; two ticks that coincide; two ticks
\* 1/4, 1, 2, 25 and 30 apart, ascending and descending
AxisSamples ==
  { GridAxis(<<>>, QInt(10), QInt(40)),
    GridAxis(<<>>, QInt(10), QInt(0)),
    GridAxis(<<>>, QInt(10), QInt(-3)),
    GridAxis(<<>>, QInt(10), QNorm(-1, 4)),
    GridAxis(<<QInt(12)>>, QInt(10), QNorm(-1, 4)),
    GridAxis(<<QInt(5)>>, QInt(10), QInt(40)),
    GridAxis(<<QInt(15), QInt(15)>>, QInt(10), QInt(40)),
    GridAxis(<<QInt(15), QInt(17)>>, QInt(10), QNorm(-1, 4)),
    GridAxis(<<QInt(11), QNorm(45, 4)>>, QInt(10), QInt(2)),
    GridAxis(<<QInt(12), QInt(13)>>, QInt(10), QInt(4)),
    GridAxis(<<QInt(12), QInt(37)>>, QInt(10), QInt(60)),
    GridAxis(<<QInt(20), QInt(50)>>, QInt(10), QInt(60)),
    GridAxis(<<QInt(50), QInt(20)>>, QInt(10), QInt(60)) }

(***************************************************************************)
(* The caller                                                              *)
(***************************************************************************)
NoCall == [fn |-> "none"]

NoRet == [out |-> <<>>]

Init ==
  /\ pc = "idle"
  /\ call = NoCall
  /\ ret = NoRet
  /\ seen = {}

CallGetSeriesColor ==
  /\ pc = "idle"
  /\ \E index \in 0..MaxIndex, accent \in AccentSamples, bg \in BgSamples :
       /\ call' = [fn |-> "getSeriesColor", index |-> index, accentColor |-> accent, bgColor |-> bg]
       /\ ret' = [out  |-> getSeriesColor(index, accent, bg),
                  tier |-> seriesTier(index),
                  dark |-> seriesDark(index, bg),
                  l    |-> seriesLightness(index, bg),
                  newH |-> seriesHue(index, accent, bg)]
  /\ pc' = "done"
  /\ UNCHANGED seen

CallMixHexColors ==
  /\ pc = "idle"
  /\ \E bg \in MixSamples, fg \in MixSamples, ratio \in RatioSamples :
       /\ call' = [fn |-> "mixHexColors", bgHex |-> bg, fgHex |-> fg, ratio |-> ratio]
       /\ ret' = [out |-> mixHexColors(bg, fg, ratio)]
  /\ pc' = "done"
  /\ UNCHANGED seen

CallIsDarkBackground ==
  /\ pc = "idle"
  /\ \E bg \in (BgSamples \cup MixSamples) \ {NoColor} :
       /\ call' = [fn |-> "isDarkBackground", bgHex |-> bg]
       /\ ret' = [out |-> isDarkBackground(bg)]
  /\ pc' = "done"
  /\ UNCHANGED seen

Return ==
  /\ pc = "done"
  /\ pc' = "idle"
  /\ call' = NoCall
  /\ ret' = NoRet
  /\ UNCHANGED seen

CallSmoothCurvePath ==
  /\ pc = "idle"
  /\ \E n \in 0..MaxPoints : \E points \in PointSeqs(n) :
       /\ call' = [fn |-> "smoothCurvePath", points |-> points]
       /\ ret' = [out      |-> smoothCurvePath(points),
                  divisors |-> IF n >= 3 THEN splineDivisors(points) ELSE <<>>]
  /\ pc' = "done"
  /\ UNCHANGED seen

CallRoundedTopBarPath ==
  /\ pc = "idle"
  /\ \E x \in BarXs, y \in BarYs, w \in BarWidths, h \in BarHeights, radius \in BarRadii :
       /\ call' = [fn |-> "roundedTopBarPath", x |-> x, y |-> y, w |-> w, h |-> h, radius |-> radius]
       /\ ret' = [out |-> roundedTopBarPath(x, y, w, h, radius)]
  /\ pc' = "done"
  /\ UNCHANGED seen

CallRoundedRightBarPath ==
  /\ pc = "idle"
  /\ \E x \in BarXs, y \in BarYs, w \in BarWidths, h \in BarHeights, radius \in BarRadii :
       /\ call' = [fn |-> "roundedRightBarPath", x |-> x, y |-> y, w |-> w, h |-> h, radius |-> radius]
       /\ ret' = [out |-> roundedRightBarPath(x, y, w, h, radius)]
  /\ pc' = "done"
  /\ UNCHANGED seen

CallTooltipAbove ==
  /\ pc = "idle"
  /\ \E cx \in TipXs, topY \in TipTopYs, text \in TipTexts :
       /\ call' = [fn |-> "tooltipAbove", cx |-> cx, topY |-> topY, text |-> text]
       /\ ret' = [out |-> tooltipAbove(cx, topY, text)]
  /\ pc' = "done"
  /\ UNCHANGED seen

CallMultiTooltipAbove ==
  /\ pc = "idle"
  /\ \E cx \in TipXs, topY \in TipTopYs, label \in TipLabels :
       \E n \in 0..MaxRows : \E entries \in EntrySeqs(n) :
         /\ call' = [fn |-> "multiTooltipAbove", cx |-> cx, topY |-> topY, label |-> label,
                     entries |-> entries]
         /\ ret' = [out |-> multiTooltipAbove(cx, topY, label, entries)]
  /\ pc' = "done"
  /\ UNCHANGED seen

CallFormatTipValue ==
  /\ pc = "idle"
  /\ \E v \in TipValues :
       /\ call' = [fn |-> "formatTipValue", v |-> v]
       /\ ret' = [out |-> formatTipValue(v)]
  /\ pc' = "done"
  /\ UNCHANGED seen

NextFormat == CallFormatTipValue \/ Return

SpecFormat == Init /\ [][NextFormat]_vars

\* one call of renderXYChartSvg on one of inputs, a chart with its theme
\* colours, with the default font and an opaque background; the call leaves
\* chart and colors as they are
CallRender(inputs) ==
  /\ pc = "idle"
  /\ \E in \in inputs, interactive \in BOOLEAN :
       /\ call' = [fn |-> "renderXYChartSvg", chart |-> in.chart, colors |-> in.colors,
                   font |-> "Inter", transparent |-> FALSE, interactive |-> interactive]
       /\ ret' = [out    |-> renderXYChartSvg(in.chart, in.colors, "Inter", FALSE, interactive),
                  chart  |-> in.chart,
                  colors |-> in.colors]
  /\ pc' = "done"
  /\ UNCHANGED seen

CallRenderXYChartSvg ==
  CallRender({ RenderInput(bars, lines, s) :
                 bars \in UNION { BarSeqs(n) : n \in 0..MaxBars }, lines \in LineLists,
                 s \in Settings })

CallRenderAgain == CallRender(RepeatInputs)

\* the return of a render call that the observer records
ReturnObserved ==
  /\ pc = "done"
  /\ call.fn = "renderXYChartSvg"
  /\ pc' = "idle"
  /\ seen' = seen \cup { [args |-> call, out |-> ret.out] }
  /\ call' = NoCall
  /\ ret' = NoRet

NextRender == CallRenderXYChartSvg \/ Return

SpecRender == Init /\ [][NextRender]_vars

NextRepeat == CallRenderAgain \/ ReturnObserved

SpecRepeat == Init /\ [][NextRepeat]_vars

\* step 1 of renderXYChartSvg taken one loop step at a time: the call
\* computes the gaps, the starts and the bounds and enters the outer loop
\* with the inner loop about to start
CallDotGrid ==
  /\ pc = "idle"
  /\ \E xIn \in AxisSamples, yIn \in AxisSamples :
       LET xAxis == gridAxis(xIn.ticks, xIn.origin, xIn.size)
           yAxis == gridAxis(yIn.ticks, yIn.origin, yIn.size)
       IN  /\ call' = [fn |-> "dotGrid", xIn |-> xIn, yIn |-> yIn, xAxis |-> xAxis,
                       yAxis |-> yAxis]
           /\ ret' = [x |-> xAxis.start, y |-> yAxis.start, circles |-> 0, steps |-> 0]
  /\ pc' = "grid"
  /\ UNCHANGED seen

\* one pass of the inner loop: parts.push of a circle, then x += xGap
GridPush ==
  /\ pc = "grid"
  /\ ret.steps < MaxGridSteps
  /\ QLe(ret.y, call.yAxis.bound)
  /\ QLe(ret.x, call.xAxis.bound)
  /\ ret' = [ret EXCEPT !.x = QAdd(ret.x, call.xAxis.gap), !.circles = @ + 1, !.steps = @ + 1]
  /\ UNCHANGED <<pc, call, seen>>

\* the inner loop ends: y += yGap, and the inner loop starts again at xStart
GridNextRow ==
  /\ pc = "grid"
  /\ ret.steps < MaxGridSteps
  /\ QLe(ret.y, call.yAxis.bound)
  /\ ~QLe(ret.x, call.xAxis.bound)
  /\ ret' = [ret EXCEPT !.y = QAdd(ret.y, call.yAxis.gap), !.x = call.xAxis.start,
                        !.steps = @ + 1]
  /\ UNCHANGED <<pc, call, seen>>

\* the outer loop ends
GridExit ==
  /\ pc = "grid"
  /\ ~QLe(ret.y, call.yAxis.bound)
  /\ pc' = "done"
  /\ ret' = [out |-> ret.circles]
  /\ UNCHANGED <<call, seen>>

NextGrid == CallDotGrid \/ GridPush \/ GridNextRow \/ GridExit \/ Return

SpecGrid == Init /\ [][NextGrid]_vars

NextColor == CallGetSeriesColor \/ CallMixHexColors \/ CallIsDarkBackground \/ Return

SpecColor == Init /\ [][NextColor]_vars

NextCurve == CallSmoothCurvePath \/ Return

SpecCurve == Init /\ [][NextCurve]_vars

NextBar == CallRoundedTopBarPath \/ CallRoundedRightBarPath \/ Return

SpecBar == Init /\ [][NextBar]_vars

NextTip == CallTooltipAbove \/ CallMultiTooltipAbove \/ Return

SpecTip == Init /\ [][NextTip]_vars

Next ==
  \/ CallGetSeriesColor \/ CallMixHexColors \/ CallIsDarkBackground
  \/ CallSmoothCurvePath
  \/ CallRoundedTopBarPath \/ CallRoundedRightBarPath
  \/ CallTooltipAbove \/ CallMultiTooltipAbove
  \/ CallFormatTipValue
  \/ CallRenderXYChartSvg \/ CallRenderAgain
  \/ CallDotGrid \/ GridPush \/ GridNextRow \/ GridExit
  \/ Return \/ ReturnObserved

Spec == Init /\ [][Next]_vars

(***************************************************************************)
(* Claims about the colour palette, checked under SpecColor                *)
(***************************************************************************)
Called(f) == pc = "done" /\ call.fn = f

\* C1: getSeriesColor(0, accent, bg) returns the accent string unchanged, for
\* every accent and every background, also when no background is given.
C1_IndexZeroReturnsAccent ==
  (Called("getSeriesColor") /\ call.index = 0) => ret.out = call.accentColor

\* index 0 on a dark background with an upper-case accent, which no hslToHex
\* output could equal
C1_Witness ==
  /\ Called("getSeriesColor")
  /\ call.index = 0
  /\ call.bgColor # NoColor
  /\ isDarkBackground(call.bgColor)
  /\ call.accentColor = Hex("F", "5", "9", "E", "0", "B")
  /\ ret.out = call.accentColor

\* C2: for every index > 0 the lightness lies in [25, 78]; a dark shade has
\* lightness below 50 and a light shade has lightness above 50, for every tier.
C2_LightnessInRegion ==
  (Called("getSeriesColor") /\ call.index > 0) =>
    /\ 25 <= ret.l /\ ret.l <= 78
    /\ ret.dark => ret.l < 50
    /\ ~ret.dark => ret.l > 50

\* a dark shade of a high tier on a dark background, held at the bound 25
C2_Witness ==
  /\ Called("getSeriesColor")
  /\ call.index > 0
  /\ call.bgColor # NoColor
  /\ isDarkBackground(call.bgColor)
  /\ ret.dark
  /\ ret.tier >= 3
  /\ ret.l = 25

HueInRange(h) == QLe(QInt(0), h) /\ QLt(h, QInt(360))

\* the number of tiers after which the hue drift of a direction is a full turn
HuePeriod(dark) == IF dark THEN 360 \div 8 ELSE 360 \div 12

\* C3 as stated: for every index > 0 the hue lies in [0, 360), and for a fixed
\* accent and a fixed shading direction two different tiers never produce the
\* same hue.
C3_Original_DistinctTiersDistinctHues ==
  (Called("getSeriesColor") /\ call.index > 0) =>
    /\ HueInRange(ret.newH)
    /\ \A j \in 1..MaxIndex :
         (seriesDark(j, call.bgColor) = ret.dark /\ seriesTier(j) # ret.tier)
           => seriesHue(j, call.accentColor, call.bgColor) # ret.newH

\* C3 amended: for every index > 0 the hue lies in [0, 360), and for a fixed
\* accent and a fixed shading direction two tiers produce the same hue only if
\* they differ by a multiple of 45 (dark, 8 degrees a tier) or of 30 (light,
\* 12 degrees a tier); tiers closer than that never share a hue.
C3_HueInRangeAndDriftsUpToFullTurn ==
  (Called("getSeriesColor") /\ call.index > 0) =>
    /\ HueInRange(ret.newH)
    /\ \A j \in 1..MaxIndex :
         (seriesDark(j, call.bgColor) = ret.dark
            /\ seriesHue(j, call.accentColor, call.bgColor) = ret.newH)
           => (seriesTier(j) - ret.tier) % HuePeriod(ret.dark) = 0

\* a dark shade whose negative shift wrapped below 0, and whose hue is that of
\* another tier a full turn away
C3_Witness ==
  /\ Called("getSeriesColor")
  /\ call.index > 0
  /\ ret.dark
  /\ QLt(QAdd(hexToHsl(call.accentColor)[1], QInt(-8 * ret.tier)), QInt(0))
  /\ \E j \in 1..MaxIndex :
       /\ seriesDark(j, call.bgColor) = ret.dark
       /\ seriesTier(j) = ret.tier + 45
       /\ seriesHue(j, call.accentColor, call.bgColor) = ret.newH

\* C4: mixHexColors is exact at its endpoints: ratio 0 gives the channels of
\* bg and ratio 1 gives the channels of fg, for all well-formed colours.
C4_MixEndpointsExact ==
  Called("mixHexColors") =>
    /\ call.ratio = QInt(0) => hexToRgb(ret.out) = hexToRgb(call.bgHex)
    /\ call.ratio = QInt(1) => hexToRgb(ret.out) = hexToRgb(call.fgHex)

\* ratio 1 with an upper-case fg of other channels than bg: the result has
\* fg's channels although it is not fg's string
C4_Witness ==
  /\ Called("mixHexColors")
  /\ call.ratio = QInt(1)
  /\ \A k \in 1..3 : hexToRgb(call.bgHex)[k] # hexToRgb(call.fgHex)[k]
  /\ ret.out # call.fgHex
  /\ hexToRgb(ret.out) = hexToRgb(call.fgHex)

\* the linear mix of channel k of the call, before rounding
MixLinear(k) == mixChannel(hexToRgb(call.bgHex)[k], hexToRgb(call.fgHex)[k], call.ratio)

OutsideUnit(ratio) == QLt(ratio, QInt(0)) \/ QLt(QInt(1), ratio)

\* C5 as stated: neither the ratio nor the final channel values are clamped:
\* for a ratio outside [0, 1] each result channel is the rounded linear
\* extrapolation bg*(1-ratio) + fg*ratio.
C5_Original_ChannelsUnclamped ==
  (Called("mixHexColors") /\ OutsideUnit(call.ratio)) =>
    \A k \in 1..3 : hexToRgb(ret.out)[k] = QRound(MixLinear(k))

\* C5 amended: the ratio is not clamped, but every final channel value is
\* clamped to [0, 255] before rounding: each result channel is
\* round(min(255, max(0, bg*(1-ratio) + fg*ratio))), so a ratio outside [0, 1]
\* extrapolates beyond the endpoint colours only within the channel range.
C5_RatioUnclampedChannelsClamped ==
  Called("mixHexColors") =>
    \A k \in 1..3 :
      hexToRgb(ret.out)[k] = QRound(QMax(QInt(0), QMin(QInt(255), MixLinear(k))))

\* a ratio above 1 where one channel extrapolates beyond both endpoint channels
\* and another one would leave the channel range
C5_Witness ==
  /\ Called("mixHexColors")
  /\ QLt(QInt(1), call.ratio)
  /\ \E k \in 1..3 :
       /\ hexToRgb(ret.out)[k] > hexToRgb(call.bgHex)[k]
       /\ hexToRgb(ret.out)[k] > hexToRgb(call.fgHex)[k]
       /\ hexToRgb(ret.out)[k] < 255
  /\ \E k \in 1..3 : QLt(QInt(255), MixLinear(k))

(***************************************************************************)
(* Claims about smoothCurvePath, checked under SpecCurve                   *)
(***************************************************************************)
MoveTo(p) == Cmd("M", <<r(p.x), r(p.y)>>)

\* C6: the command structure of smoothCurvePath depends only on the point
\* count n: n = 0 gives the empty string, n = 1 a single move-to, n = 2 a
\* move-to and exactly one line-to to the second point, n >= 3 a move-to and
\* exactly n-1 cubic segments, no line-to, segment i ending exactly at point
\* i+1; for every n >= 1 the first command is a move to the first point.
C6_CommandStructure ==
  Called("smoothCurvePath") =>
    LET points == call.points
        n      == Len(points)
        out    == ret.out
    IN  /\ n = 0 => out = <<>>
        /\ n >= 1 => (Len(out) >= 1 /\ out[1] = MoveTo(points[1]))
        /\ n = 1 => Len(out) = 1
        /\ n = 2 => (Len(out) = 2 /\ out[2] = Cmd("L", <<r(points[2].x), r(points[2].y)>>))
        /\ n >= 3 =>
             /\ Len(out) = n
             /\ \A k \in 2..n :
                  /\ out[k].op = "C"
                  /\ Len(out[k].args) = 6
                  /\ out[k].args[5] = r(points[k].x)
                  /\ out[k].args[6] = r(points[k].y)

\* a spline through the most points, the first two of them sharing their x
C6_Witness ==
  /\ Called("smoothCurvePath")
  /\ Len(call.points) = MaxPoints
  /\ call.points[1].x = call.points[2].x
  /\ Len(ret.out) = MaxPoints
  /\ ret.out[MaxPoints].op = "C"

\* the x-coordinates a command emits, in emission order
CmdXs(cmd) ==
  IF cmd.op = "C" THEN <<cmd.args[1], cmd.args[3], cmd.args[5]>> ELSE <<cmd.args[1]>>

RECURSIVE PathXs(_)
PathXs(path) == IF path = <<>> THEN <<>> ELSE CmdXs(Head(path)) \o PathXs(Tail(path))

NonDecreasing(xs) == \A k \in 1..(Len(xs) - 1) : QLe(xs[k], xs[k + 1])

\* C7: the emitted path never reverses direction along x: for every input
\* with non-decreasing x, the x-coordinates of the emitted points in emission
\* order (move point, then per segment first control point, second control
\* point, end point) are non-decreasing.
C7_NeverReversesAlongX ==
  (Called("smoothCurvePath") /\ NonDecreasing([k \in 1..Len(call.points) |-> call.points[k].x]))
    => NonDecreasing(PathXs(ret.out))

\* a spline with a narrow step, whose control points print on distinct tenths
\* strictly between the end points, and a duplicate x
C7_Witness ==
  /\ Called("smoothCurvePath")
  /\ Len(call.points) >= 3
  /\ call.points[2].x = call.points[3].x
  /\ QLt(ret.out[2].args[1], ret.out[2].args[3])
  /\ QLt(ret.out[2].args[3], ret.out[2].args[5])
  /\ NonDecreasing(PathXs(ret.out))

RECURSIVE PathArgs(_)
PathArgs(path) == IF path = <<>> THEN <<>> ELSE Head(path).args \o PathArgs(Tail(path))

\* C8: smoothCurvePath never divides by zero on duplicate x-coordinates: for
\* every input with non-decreasing x, also with runs of two, three or more
\* consecutive points of the same x, every divisor of the secant-slope
\* computation and of the forward elimination is non-zero and every emitted
\* coordinate is a finite number.
C8_NoDivisionByZero ==
  (Called("smoothCurvePath") /\ NonDecreasing([k \in 1..Len(call.points) |-> call.points[k].x]))
    => /\ \A k \in 1..Len(ret.divisors) : ret.divisors[k] # QInt(0)
       /\ \A k \in 1..Len(PathArgs(ret.out)) : IsFinite(PathArgs(ret.out)[k])

(***************************************************************************)
(* Claims about the bar paths, checked under SpecBar                       *)
(***************************************************************************)
CalledBarPath == Called("roundedTopBarPath") \/ Called("roundedRightBarPath")

\* rr = min(radius, width/2, height/2) of the call
CallRR == QMin(QMin(call.radius, QDiv(call.w, QInt(2))), QDiv(call.h, QInt(2)))

\* C9: whenever rr = min(radius, width/2, height/2) <= 0 (zero or negative
\* radius, width or height), roundedTopBarPath and roundedRightBarPath both
\* return the same plain axis-aligned rectangle path (move to (x,y),
\* horizontal by w, vertical by h, horizontal by -w, close), with no curve
\* command.
C9_PlainRectangleWhenNoRadius ==
  (CalledBarPath /\ QLe(CallRR, QInt(0))) =>
    /\ ret.out = <<Cmd("M", <<r(call.x), r(call.y)>>), Cmd("h", <<r(call.w)>>),
                   Cmd("v", <<r(call.h)>>), Cmd("h", <<r(QNeg(call.w))>>), Cmd("Z", <<>>)>>
    /\ roundedTopBarPath(call.x, call.y, call.w, call.h, call.radius) = ret.out
    /\ roundedRightBarPath(call.x, call.y, call.w, call.h, call.radius) = ret.out
    /\ \A k \in 1..Len(ret.out) : ret.out[k].op \notin {"Q", "C", "A"}

\* the vertical builder called with the renderer's radius and a zero height,
\* so that rr is exactly 0
C9_Witness ==
  /\ Called("roundedTopBarPath")
  /\ call.radius = QInt(CHART_FONT.barRadius)
  /\ call.h = QInt(0)
  /\ QLt(QInt(0), call.w)
  /\ CallRR = QInt(0)
  /\ Len(ret.out) = 5

(***************************************************************************)
(* Claims about the tooltips, checked under SpecTip                        *)
(***************************************************************************)
CalledTooltip == Called("tooltipAbove") \/ Called("multiTooltipAbove")

\* the box height the claim names: fixed for one value, heading row plus one
\* row per entry plus the padding for several values
ClaimedBoxHeight ==
  IF call.fn = "tooltipAbove" THEN 32 ELSE 20 * (Len(call.entries) + 1) + 12

\* C10: the vertical position of every tooltip box, single-value and
\* multi-value, is max(minY, anchorTopY - verticalOffset - boxHeight -
\* pointerSize) and so never less than the minimum y of 4, for every anchor
\* position, also y = 0 and negative y, and for every number of rows.
C10_TooltipNeverAboveMinY ==
  CalledTooltip =>
    LET box   == ret.out[1]
        above == QSub(call.topY, QInt(12 + ClaimedBoxHeight + 6))
    IN  /\ box.tag = "rect"
        /\ Attr(box, "height") = QInt(ClaimedBoxHeight)
        /\ Attr(box, "y") = r(IF QLt(above, QInt(4)) THEN QInt(4) ELSE above)
        /\ QLe(QInt(4), Attr(box, "y"))

\* a multi-value tooltip of the most rows whose anchor is at y = 0: the box is
\* held at the minimum y although it then covers its anchor
C10_Witness ==
  /\ Called("multiTooltipAbove")
  /\ Len(call.entries) = MaxRows
  /\ call.topY = QInt(0)
  /\ Attr(ret.out[1], "y") = QInt(4)

(***************************************************************************)
(* Claims about formatTipValue, checked under SpecFormat                   *)
(***************************************************************************)
DigitVal(ch) == CHOOSE k \in 0..9 : DigitChars[k + 1] = ch

IsDigit(ch) == \E k \in 1..10 : DigitChars[k] = ch

\* the number a string of digits denotes
RECURSIVE ParseNat(_)
ParseNat(ds) ==
  IF ds = <<>> THEN 0 ELSE 10 * ParseNat(SubSeq(ds, 1, Len(ds) - 1)) + DigitVal(ds[Len(ds)])

Unsigned(s) == IF s # <<>> /\ s[1] = "-" THEN Tail(s) ELSE s

WithoutChar(s, ch) == SelectSeq(s, LAMBDA c : c # ch)

\* digits in groups of three from the right, a comma between two groups and nowhere else
WellGrouped(s) ==
  /\ s # <<>>
  /\ \A k \in 1..Len(s) :
        IF (Len(s) - k + 1) % 4 = 0 THEN s[k] = "," ELSE IsDigit(s[k])
  /\ s[1] # ","
  /\ (s[1] = "0" => Len(s) = 1)

\* digits, with exactly places digits after one decimal point when places > 0
FixedPlaces(s, places) ==
  IF places = 0 THEN s # <<>> /\ \A k \in 1..Len(s) : IsDigit(s[k])
  ELSE /\ Len(s) >= places + 2
       /\ s[Len(s) - places] = "."
       /\ \A k \in 1..Len(s) : k # Len(s) - places => IsDigit(s[k])

\* C11: formatTipValue prints an integer with thousands separators and no
\* decimal places, a non-integer of magnitude below 10 as the nearest number
\* with exactly one decimal place, and any other finite non-integer as the
\* nearest whole number, without a decimal point; 1000 gives "1,000",
\* 3.14159 gives "3.1" and 42.7 gives "43".
C11_FormatTipValue ==
  Called("formatTipValue") =>
    LET v   == call.v
        out == ret.out
        u   == Unsigned(out)
        mag == QAbs(v)
    IN  /\ IsFinite(v) => ((out # <<>> /\ out[1] = "-") <=> v[1] < 0)
        /\ isInteger(v) =>
              /\ WellGrouped(u)
              /\ ParseNat(WithoutChar(u, ",")) = mag[1]
        /\ (IsFinite(v) /\ ~isInteger(v) /\ QLt(mag, QInt(10))) =>
              /\ FixedPlaces(u, 1)
              /\ QLe(QAbs(QSub(QNorm(ParseNat(WithoutChar(u, ".")), 10), mag)), QNorm(1, 20))
        /\ (IsFinite(v) /\ ~isInteger(v) /\ ~QLt(mag, QInt(10))) =>
              /\ FixedPlaces(u, 0)
              /\ QLe(QAbs(QSub(QInt(ParseNat(u)), mag)), QNorm(1, 2))
        /\ v = QInt(1000) => out = <<"1", ",", "0", "0", "0">>
        /\ v = QNorm(314159, 100000) => out = <<"3", ".", "1">>
        /\ v = QNorm(427, 10) => out = <<"4", "3">>

\* a non-integer of magnitude at least 10 has been formatted, to a whole number
C11_Witness ==
  /\ Called("formatTipValue")
  /\ call.v = QNorm(-2469, 2)
  /\ ret.out = <<"-", "1", "2", "3", "5">>

(***************************************************************************)
(* Claims about renderXYChartSvg, checked under SpecRender                 *)
(***************************************************************************)
Rendered == Called("renderXYChartSvg")

HasAttr(e, name) == \E k \in 1..Len(e.attrs) : e.attrs[k][1] = name

ClassOf(e) == IF HasAttr(e, "class") THEN Attr(e, "class") ELSE ""

\* the colour indices of the charts rendered
ColorSlots == 0..5

\* e carries class c, alone or followed by a xychart-color-i class
ClassedAs(e, c) == ClassOf(e) = c \/ \E i \in ColorSlots : ClassOf(e) = colorClass(c, i)

\* the child elements of a group
Children(e) == IF e.tag = "g" THEN e.text ELSE <<>>

IsTipElem(e) ==
  ClassOf(e) \in { "xychart-tip xychart-tip-bg", "xychart-tip xychart-tip-ptr",
                   "xychart-tip xychart-tip-text" }

IsSwatch(e) ==
  \/ e.tag = "rect" /\ ClassedAs(e, "xychart-bar")
  \/ e.tag = "line" /\ ClassedAs(e, "xychart-legend-line")

\* the layer of part k of the document, read off its tag and class; a
\* label that follows a legend swatch is the legend's
LayerOf(parts, k) ==
  LET e == parts[k]
  IN  IF e.tag \in { "svg", "style" } THEN 0
      ELSE IF e.tag = "circle" /\ ClassOf(e) = "xychart-grid" THEN 1
      ELSE IF e.tag = "path" /\ ClassedAs(e, "xychart-bar") THEN 2
      ELSE IF e.tag = "path" /\ (ClassedAs(e, "xychart-line-shadow") \/ ClassedAs(e, "xychart-line"))
        THEN 3
      ELSE IF e.tag = "circle" /\ ClassedAs(e, "xychart-dot") THEN 4
      ELSE IF e.tag = "text" /\ ClassOf(e) = "xychart-label"
        THEN (IF IsSwatch(parts[k - 1]) THEN 8 ELSE 5)
      ELSE IF e.tag = "text" /\ ClassOf(e) = "xychart-axis-title" THEN 6
      ELSE IF e.tag = "text" /\ ClassOf(e) = "xychart-title" THEN 7
      ELSE IF IsSwatch(e) THEN 8
      ELSE IF e.tag = "g" /\ ClassOf(e) = "xychart-bar-group" THEN 9
      ELSE IF e.tag = "g" /\ ClassOf(e) = "xychart-dot-group" THEN 10
      ELSE IF e.tag = "/svg" THEN 11
      ELSE -1

\* C12: the parts of the document come in one back-to-front order: the
\* opening tag and the styles, grid dots, bar paths, line paths, inline
\* point markers, tick labels, axis titles, the chart title, legend items,
\* bar overlay groups, point overlay groups, the closing tag; no part of a
\* later layer precedes a part of an earlier one, and tooltip elements occur
\* only inside the overlay groups.
C12_FixedPaintOrder ==
  Rendered =>
    LET parts == ret.out
        n     == Len(parts)
    IN  /\ n >= 4
        /\ parts[1].tag = "svg" /\ parts[2].tag = "style" /\ parts[3].tag = "style"
        /\ \A k \in 4..n : LayerOf(parts, k) >= 1
        /\ \A k \in 4..(n - 1) : LayerOf(parts, k) <= LayerOf(parts, k + 1)
        /\ \A k \in 1..n : LayerOf(parts, k) = 11 <=> k = n
        /\ \A k \in 1..n :
             /\ ~IsTipElem(parts[k])
             /\ (\E j \in 1..Len(Children(parts[k])) : IsTipElem(Children(parts[k])[j]))
                  => LayerOf(parts, k) \in {9, 10}

\* an interactive chart with bars, lines, tick labels, an axis title and a
\* legend has been rendered, with both kinds of overlay group
C12_Witness ==
  /\ Rendered
  /\ call.interactive
  /\ \A layer \in {1, 2, 3, 5, 6, 8, 9, 10} :
       \E k \in 1..Len(ret.out) : LayerOf(ret.out, k) = layer

\* the colour indices that occur in the bars or the lines of the chart rendered
UsedColors ==
  { call.chart.bars[k].colorIndex : k \in 1..Len(call.chart.bars) }
    \cup { call.chart.lines[k].colorIndex : k \in 1..Len(call.chart.lines) }

\* the declarations of the per-series variable block of the chart's style element
VarDecls == ret.out[3].text.colorVarsBlock

\* how many declarations define the custom property name
TimesDefined(name) == Cardinality({ k \in 1..Len(VarDecls) : VarDecls[k][1] = name })

\* the value the first declaration of name binds
ValueOf(name) == VarDecls[CHOOSE k \in 1..Len(VarDecls) : VarDecls[k][1] = name][2]

\* C13: the style block defines --xychart-color-i and --xychart-bar-fill-i
\* exactly once for every colorIndex i that occurs in bars or lines and for
\* no other index; --xychart-color-0 is bound to var(--accent, #3b82f6), and
\* for i > 0 --xychart-color-i is bound to getSeriesColor(i, accent, bg),
\* with the fallback accent when the theme has none.
C13_SeriesVariables ==
  Rendered =>
    /\ \A i \in ColorSlots :
         /\ TimesDefined(colorVarName(i)) = (IF i \in UsedColors THEN 1 ELSE 0)
         /\ TimesDefined(barFillName(i)) = (IF i \in UsedColors THEN 1 ELSE 0)
    /\ Len(VarDecls) = 2 * Cardinality(UsedColors)
    /\ 0 \in UsedColors =>
         ValueOf(colorVarName(0)) = <<"var", "--accent", <<"#", "3", "b", "8", "2", "f", "6">> >>
    /\ \A i \in UsedColors \ {0} :
         ValueOf(colorVarName(i)) =
           getSeriesColor(i,
                          IF call.colors.accent = <<>>
                            THEN <<"#", "3", "b", "8", "2", "f", "6">>
                            ELSE call.colors.accent,
                          call.colors.bg)

\* a chart using index 0 and two derived shades, one of them twice, has
\* been rendered under a theme with an accent
C13_Witness ==
  /\ Rendered
  /\ UsedColors = {0, 3, 4}
  /\ Len(call.chart.bars) + Len(call.chart.lines) > 3
  /\ call.colors.accent # <<>>
  /\ TimesDefined(colorVarName(4)) = 1

\* the value stamped on the opening tag
StampedColors == Attr(ret.out[1], "data-xychart-colors")

\* C14: the opening tag's data-xychart-colors is the largest colorIndex of
\* the chart's bars and lines, and 0 when there is neither; so no
\* --xychart-color-i is defined for an i above the stamped value.
C14_StampedMaxColorIndex ==
  Rendered =>
    /\ HasAttr(ret.out[1], "data-xychart-colors")
    /\ StampedColors \in UsedColors \cup {0}
    /\ \A i \in UsedColors : i <= StampedColors
    /\ UsedColors = {} => StampedColors = 0
    /\ \A i \in ColorSlots : TimesDefined(colorVarName(i)) > 0 => i <= StampedColors

\* a chart whose largest colour index is a line's, above every bar's
C14_Witness ==
  /\ Rendered
  /\ Len(call.chart.bars) > 0
  /\ \A k \in 1..Len(call.chart.bars) : call.chart.bars[k].colorIndex < 4
  /\ StampedColors = 4

\* every element of a fragment, the children of a group after the group
RECURSIVE Flatten(_)
Flatten(parts) ==
  IF parts = <<>> THEN <<>>
  ELSE <<Head(parts)>> \o Flatten(Children(Head(parts))) \o Flatten(Tail(parts))

\* the elements of class xychart-bar of the document, in document order
BarElems == SelectSeq(Flatten(ret.out), LAMBDA e : ClassedAs(e, "xychart-bar"))

\* C15: a chart with N bars and no legend is rendered with exactly N
\* elements of class xychart-bar, the k-th a path for the k-th bar with the
\* class xychart-color-{colorIndex} of that bar, its value as data-value,
\* and a data-label exactly when the bar's label is not empty; interactive
\* or not.
C15_OnePathPerBar ==
  (Rendered /\ call.chart.legend = <<>>) =>
    LET bars == call.chart.bars
    IN  /\ Len(BarElems) = Len(bars)
        /\ \A k \in 1..Len(bars) :
             LET e == BarElems[k]
             IN  /\ e.tag = "path"
                 /\ ClassOf(e) = "xychart-bar xychart-color-" \o ToString(bars[k].colorIndex)
                 /\ HasAttr(e, "data-value") /\ Attr(e, "data-value") = bars[k].value
                 /\ HasAttr(e, "data-label") <=> bars[k].label # <<>>

\* two bars, one labelled and one not, rendered interactively without a legend
C15_Witness ==
  /\ Rendered
  /\ call.interactive
  /\ call.chart.legend = <<>>
  /\ Len(call.chart.bars) = 2
  /\ call.chart.bars[1].label = <<>> /\ call.chart.bars[2].label # <<>>
  /\ Len(BarElems) = 2
  /\ HasAttr(BarElems[2], "data-label") /\ ~HasAttr(BarElems[1], "data-label")

\* the line points of the chart rendered, line by line, each with its series
ChartPoints == dotEntries(call.chart.lines, 1)

\* the points whose x prints as key, in their order
ColumnOf(key) == SelectSeq(ChartPoints, LAMBDA p : r(p.x) = key)

ColumnKeys == { r(ChartPoints[k].x) : k \in 1..Len(ChartPoints) }

\* the overlay groups of points of the document
DotGroups == SelectSeq(ret.out, LAMBDA e : e.tag = "g" /\ ClassOf(e) = "xychart-dot-group")

DotsIn(g) == SelectSeq(Children(g), LAMBDA e : ClassedAs(e, "xychart-dot"))

HitsIn(g) == SelectSeq(Children(g), LAMBDA e : ClassOf(e) = "xychart-hit")

TipIn(g) == SelectSeq(Children(g), LAMBDA e : IsTipElem(e))

TipBoxesIn(g) == SelectSeq(Children(g), LAMBDA e : ClassOf(e) = "xychart-tip xychart-tip-bg")

\* the groups whose dots stand in the column key
GroupsOf(key) ==
  SelectSeq(DotGroups, LAMBDA g : \E k \in 1..Len(DotsIn(g)) : Attr(DotsIn(g)[k], "cx") = key)

\* the line items of the legend for a series
LineItemsFor(seriesIndex) ==
  { k \in 1..Len(call.chart.legend) :
      call.chart.legend[k].type = "line" /\ call.chart.legend[k].seriesIndex = seriesIndex }

\* "Line N" with N = seriesIndex + 1, for the series of the charts rendered
OrdinalLabel(seriesIndex) ==
  <<"L", "i", "n", "e", " ">> \o <<CASE seriesIndex = 0 -> "1" [] seriesIndex = 1 -> "2"
                                     [] seriesIndex = 2 -> "3">>

\* the hit-region and the tooltip of the group g of the column pts, but
\* for the labels of the rows
ColumnGroupShape(g, pts) ==
  LET n    == Len(pts)
      pad  == QInt(15)
      minY == CHOOSE y \in { pts[k].y : k \in 1..n } : \A k \in 1..n : QLe(y, pts[k].y)
      maxY == CHOOSE y \in { pts[k].y : k \in 1..n } : \A k \in 1..n : QLe(pts[k].y, y)
      hit  == HitsIn(g)[1]
      tip  == TipIn(g)
  IN  /\ Len(HitsIn(g)) = 1
      /\ hit.tag = "rect"
      /\ Attr(hit, "y") = r(QSub(minY, pad))
      /\ Attr(hit, "height") = r(QAdd(QSub(maxY, minY), QInt(30)))
      /\ \A k \in 1..n :
           /\ QLe(Attr(hit, "y"), pts[k].y)
           /\ QLe(pts[k].y, QAdd(Attr(hit, "y"), Attr(hit, "height")))
           /\ QLe(Attr(hit, "x"), pts[k].x)
           /\ QLe(pts[k].x, QAdd(Attr(hit, "x"), Attr(hit, "width")))
      /\ Len(TipBoxesIn(g)) = 1
      /\ Len(tip) = 3 + 2 * n
      /\ \A k \in 1..n : tip[3 + 2 * k].text = escapeXml(formatTipValue(pts[k].value))

\* C16 as stated: in interactive mode a column of more than one point gets
\* exactly one group with one hit-region from (min y - pad) to (max y + pad)
\* and one tooltip with a row per point, labelled with the series' legend
\* label whenever the legend has a line item for the series and with
\* "Line N" otherwise.
C16_Original_LegendLabelWheneverEntryExists ==
  (Rendered /\ call.interactive) =>
    \A key \in ColumnKeys :
      LET pts == ColumnOf(key)
      IN  Len(pts) > 1 =>
            /\ Len(GroupsOf(key)) = 1
            /\ ColumnGroupShape(GroupsOf(key)[1], pts)
            /\ \A k \in 1..Len(pts) :
                 LET shown == TipIn(GroupsOf(key)[1])[2 + 2 * k].text
                     items == LineItemsFor(pts[k].seriesIndex)
                 IN  IF items = {} THEN shown = escapeXml(OrdinalLabel(pts[k].seriesIndex))
                     ELSE \E i \in items : shown = escapeXml(call.chart.legend[i].label)

\* C16: in interactive mode a column of more than one point gets exactly
\* one group with one hit-region, printed from (min y - pad) with the height
\* (max y - min y + 2 pad) and containing every point of the column, and
\* one tooltip with a row per point showing the formatted value and the
\* label of the last line item of the legend for the point's series, or
\* "Line N" with N = seriesIndex + 1 when there is no such item or its
\* label is empty.
C16_ColumnGroupWithLegendOrOrdinalLabels ==
  (Rendered /\ call.interactive) =>
    \A key \in ColumnKeys :
      LET pts == ColumnOf(key)
      IN  Len(pts) > 1 =>
            /\ Len(GroupsOf(key)) = 1
            /\ ColumnGroupShape(GroupsOf(key)[1], pts)
            /\ \A k \in 1..Len(pts) :
                 LET shown == TipIn(GroupsOf(key)[1])[2 + 2 * k].text
                     items == LineItemsFor(pts[k].seriesIndex)
                     last  == CHOOSE i \in items : \A j \in items : j <= i
                 IN  IF items # {} /\ call.chart.legend[last].label # <<>>
                       THEN shown = escapeXml(call.chart.legend[last].label)
                       ELSE shown = escapeXml(OrdinalLabel(pts[k].seriesIndex))

\* two series share a column; the legend has no item for the first and an
\* item with an empty label for the second: the rows read "Line 1", "Line 2"
C16_Witness ==
  /\ Rendered
  /\ call.interactive
  /\ call.chart.lines = <<LineTwo, LineShare>>
  /\ LineItemsFor(1) # {}
  /\ Len(GroupsOf(QInt(10))) = 1
  /\ Len(HitsIn(GroupsOf(QInt(10))[1])) = 1
  /\ TipIn(GroupsOf(QInt(10))[1])[4].text = <<"L", "i", "n", "e", " ", "1">>
  /\ TipIn(GroupsOf(QInt(10))[1])[6].text = <<"L", "i", "n", "e", " ", "2">>

\* the largest number of points of a line of the chart rendered, 0 without lines
MostPoints ==
  LET s == { Len(call.chart.lines[k].points) : k \in 1..Len(call.chart.lines) } \cup {0}
  IN  CHOOSE m \in s : \A i \in s : i <= m

\* the positions of the point markers among the parts of the document
InlineDotAt == { k \in 1..Len(ret.out) : ClassedAs(ret.out[k], "xychart-dot") }

\* the point markers of the document, inside groups or not
DotElems == SelectSeq(Flatten(ret.out), LAMBDA e : ClassedAs(e, "xychart-dot"))

BarGroups == SelectSeq(ret.out, LAMBDA e : e.tag = "g" /\ ClassOf(e) = "xychart-bar-group")

\* the transparent shapes of a group, its hit-regions
HitRegionsIn(g) ==
  SelectSeq(Children(g), LAMBDA e : HasAttr(e, "fill") /\ Attr(e, "fill") = "transparent")

\* C18 as stated: in interactive mode every bar and every column has one
\* overlay group, and every group holds a hit-region and a tooltip, sparse
\* chart or not.
C18_Original_EveryGroupHasHitRegion ==
  (Rendered /\ call.interactive) =>
    /\ Len(BarGroups) = Len(call.chart.bars)
    /\ Len(DotGroups) = Cardinality(ColumnKeys)
    /\ \A key \in ColumnKeys : Len(GroupsOf(key)) = 1
    /\ \A k \in 1..Len(BarGroups) :
         Len(HitRegionsIn(BarGroups[k])) >= 1 /\ Len(TipBoxesIn(BarGroups[k])) >= 1
    /\ \A k \in 1..Len(DotGroups) :
         Len(HitRegionsIn(DotGroups[k])) >= 1 /\ Len(TipBoxesIn(DotGroups[k])) >= 1

\* C18: in interactive mode every bar and every column has one overlay
\* group, and every group holds one tooltip; the group of a bar and the
\* group of a column of several points hold one hit-region, the group of a
\* column of one point holds one exactly when the chart is sparse (its
\* largest line has 1 to 12 points) and none otherwise.
C18_GroupsWithTooltipHitRegionUnlessDenseSingle ==
  (Rendered /\ call.interactive) =>
    /\ Len(BarGroups) = Len(call.chart.bars)
    /\ Len(DotGroups) = Cardinality(ColumnKeys)
    /\ \A k \in 1..Len(BarGroups) :
         Len(HitRegionsIn(BarGroups[k])) = 1 /\ Len(TipBoxesIn(BarGroups[k])) = 1
    /\ \A key \in ColumnKeys :
         /\ Len(GroupsOf(key)) = 1
         /\ Len(TipBoxesIn(GroupsOf(key)[1])) = 1
         /\ Len(HitRegionsIn(GroupsOf(key)[1])) =
              (IF Len(ColumnOf(key)) > 1 \/ (MostPoints >= 1 /\ MostPoints <= 12) THEN 1 ELSE 0)

\* an interactive chart with a bar and a line of thirteen points: the bar's
\* group has its hit-region, the thirteen groups of the points have none
C18_Witness ==
  /\ Rendered
  /\ call.interactive
  /\ MostPoints = 13
  /\ Len(BarGroups) >= 1 /\ Len(HitRegionsIn(BarGroups[1])) = 1
  /\ Len(DotGroups) = 13
  /\ \A k \in 1..Len(DotGroups) :
       Len(HitRegionsIn(DotGroups[k])) = 0 /\ Len(TipBoxesIn(DotGroups[k])) = 1

EmptyChart ==
  /\ call.chart.bars = <<>> /\ call.chart.lines = <<>>
  /\ call.chart.xAxis.ticks = <<>> /\ call.chart.yAxis.ticks = <<>>
  /\ call.chart.legend = <<>>
  /\ call.chart.title = <<>> /\ call.chart.xAxis.title = <<>> /\ call.chart.yAxis.title = <<>>

\* C20: an empty chart is rendered as the opening tag stamped with
\* data-xychart-colors = 0, the two style elements without a per-series
\* variable block, grid dots and nothing else, and the closing tag.
C20_EmptyChartMinimalDocument ==
  (Rendered /\ EmptyChart) =>
    LET parts == ret.out
        n     == Len(parts)
    IN  /\ n >= 4
        /\ parts[1].tag = "svg" /\ Attr(parts[1], "data-xychart-colors") = 0
        /\ parts[2].tag = "style" /\ parts[3].tag = "style"
        /\ parts[3].text.colorVarsBlock = <<>>
        /\ parts[3].text.seriesRules = <<>>
        /\ \A k \in 4..(n - 1) :
             parts[k].tag = "circle" /\ ClassOf(parts[k]) = "xychart-grid"
        /\ parts[n].tag = "/svg"

\* the empty chart has been rendered interactively: 7 rows of 7 grid dots
C20_Witness ==
  /\ Rendered
  /\ EmptyChart
  /\ call.interactive
  /\ call.chart.gridLines = <<>>
  /\ Len(ret.out) = 4 + 49

(***************************************************************************)
(* The dot-grid loops                                                      *)
(***************************************************************************)
InGrid == pc = "grid"

RowRuns == InGrid /\ QLe(ret.y, call.yAxis.bound)

ColumnRuns == RowRuns /\ QLe(ret.x, call.xAxis.bound)

\* C21: renderXYChartSvg has no unbounded loop.  A loop
\* for (v = start; v <= bound; v += gap) ends exactly when every pass moves v
\* towards the bound: whenever the condition of a dot-grid loop holds, the
\* gap of that loop is positive.
C21_DotGridLoopsEnd ==
  /\ RowRuns => QLt(QInt(0), call.yAxis.gap)
  /\ ColumnRuns => QLt(QInt(0), call.xAxis.gap)

\* a call that is still in its loops after MaxGridSteps steps
GridRunsOn == InGrid /\ ret.steps = MaxGridSteps /\ RowRuns

\* the calls followed to the step limit are those of a loop that cannot end
GridLimitOnlyForEndlessLoops == GridRunsOn => ~C21_DotGridLoopsEnd

GridCalled == call.fn = "dotGrid"

\* the base spacing of an axis: the distance of its first two ticks, or a
\* sixth of the plot-area dimension
BaseOf(in) ==
  IF Len(in.ticks) > 1 THEN QAbs(QSub(in.ticks[2], in.ticks[1])) ELSE QDiv(in.size, QInt(6))

\* the most passes a loop with a positive gap makes: none when the bound is
\* left of the plot-area origin, else one per whole gap from the origin to
\* the bound, and two
MostPasses(in, axis) ==
  LET span == QAdd(in.size, QNorm(1, 2))
  IN  IF QLt(span, QInt(0)) THEN 0 ELSE QFloor(QDiv(span, axis.gap)) + 2

\* the statement as first made: a positive gap is never below a fixed
\* minimum cell size, here 10, the smallest gap a subdivided spacing has
GapAtLeastMinimum(axis) == QLt(QInt(0), axis.gap) => QLe(QInt(10), axis.gap)

C22_Original_GapBoundedBelow ==
  GridCalled => GapAtLeastMinimum(call.xAxis) /\ GapAtLeastMinimum(call.yAxis)

\* a base spacing below 10 is the gap itself; a base spacing of 10 or more
\* is divided into round(base / 20) cells of at least 10 and less than 30
GapRule(in, axis) ==
  LET base == BaseOf(in)
  IN  QLt(QInt(0), base) =>
        /\ QLt(base, QInt(10)) => axis.gap = base
        /\ QLe(QInt(10), base) =>
             /\ QLe(QInt(10), axis.gap) /\ QLt(axis.gap, QInt(30))
             /\ \E k \in 1..100 : /\ QMul(axis.gap, QInt(k)) = base
                                  /\ QLe(QNorm(2 * k - 1, 2), QDiv(base, QInt(20)))
                                  /\ QLt(QDiv(base, QInt(20)), QNorm(2 * k + 1, 2))

\* C22 (amended): the dot-grid gap of an axis is the base spacing itself when
\* that is below 10 units, however small, and otherwise the base spacing
\* divided by round(base / 20), between 10 and 30 units; with positive gaps
\* a finished call has pushed at most (span / xGap + 2) * (span / yGap + 2)
\* circles, span being the plot-area dimension plus 0.5.
C22_GapFollowsSpacingBelowTen ==
  GridCalled =>
    /\ GapRule(call.xIn, call.xAxis)
    /\ GapRule(call.yIn, call.yAxis)
    /\ (pc = "done" /\ QLt(QInt(0), call.xAxis.gap) /\ QLt(QInt(0), call.yAxis.gap)) =>
         ret.out <= MostPasses(call.xIn, call.xAxis) * MostPasses(call.yIn, call.yAxis)

\* a finished call with circles whose columns are 1/4 apart, as the ticks
\* are, and whose rows are 15 apart, half the distance of the ticks
C22_Witness ==
  /\ GridCalled /\ pc = "done" /\ ret.out > 0
  /\ call.xAxis.gap = QNorm(1, 4) /\ BaseOf(call.xIn) = QNorm(1, 4)
  /\ call.yAxis.gap = QInt(15) /\ BaseOf(call.yIn) = QInt(30)

\* the values a loop with a positive gap gives its variable
ColumnsOf(axis) ==
  LET vs == gridCoords(axis.start, axis.gap, axis.bound)
  IN  { vs[k] : k \in 1..Len(vs) }

FirstTwoTicks(in) == { in.ticks[k] : k \in 1..(IF Len(in.ticks) > 2 THEN 2 ELSE Len(in.ticks)) }

Anchored(in, axis) ==
  LET anchor == IF in.ticks = <<>> THEN in.origin ELSE in.ticks[1]
  IN  QLt(QInt(0), axis.gap) =>
        /\ QLt(QSub(in.origin, axis.gap), axis.start) /\ QLe(axis.start, in.origin)
        /\ isInteger(QDiv(QSub(anchor, axis.start), axis.gap))
        /\ Len(in.ticks) > 1 => isInteger(QDiv(QSub(in.ticks[2], in.ticks[1]), axis.gap))
        /\ in.ticks = <<>> => axis.start = in.origin
        /\ \A t \in FirstTwoTicks(in) :
             QLe(axis.start, t) /\ QLe(t, axis.bound) => t \in ColumnsOf(axis)

\* C23: for a positive gap the first grid column (row) lies within one gap
\* left of (above) the plot-area origin, at most at the origin; the first
\* tick is a whole number of gaps from it and the first two ticks are a
\* whole number of gaps apart, so each of the two that lies in the range of
\* the loop is a grid column (row); with no ticks the grid starts at the
\* plot-area origin.
C23_GridAnchoredAtTicks ==
  GridCalled => Anchored(call.xIn, call.xAxis) /\ Anchored(call.yIn, call.yAxis)

\* a finished call whose columns start left of the plot-area origin to meet
\* two ticks 30 apart, and whose rows start at the origin for want of ticks
C23_Witness ==
  /\ GridCalled /\ pc = "done" /\ ret.out > 0
  /\ Len(call.xIn.ticks) = 2 /\ call.xAxis.gap = QInt(15)
  /\ QLt(call.xAxis.start, call.xIn.origin)
  /\ FirstTwoTicks(call.xIn) \subseteq ColumnsOf(call.xAxis)
  /\ call.yIn.ticks = <<>> /\ QLt(QInt(0), call.yAxis.gap)

(***************************************************************************)
(* Claims about the tooltip geometry, checked under SpecTip                *)
(***************************************************************************)
\* the six printed coordinates of the pointer triangle of a tooltip
PointerOf(out) == Attr(out[2], "points")

\* a printed x and a printed width centred on c, to the precision of print
CentredOn(x, width, c) ==
  QLe(QAbs(QSub(QAdd(x, QDiv(width, QInt(2))), c)), QNorm(1, 10))

\* the box is as wide as the estimated text and the padding on both sides
\* and centred on the anchor x; the base of the pointer is the 12 units of
\* the bottom edge of the box around its centre and the apex is 6 units below
SingleTipGeometry ==
  LET box   == ret.out[1]
      pts   == PointerOf(ret.out)
      bgW   == QAdd(estimateTextWidth(call.text, 15, 500), QInt(2 * 14))
      below == QAdd(QMax(QInt(4), QSub(call.topY, QInt(50))), QInt(32))
  IN  /\ Attr(box, "width") = r(bgW)
      /\ Attr(box, "x") = r(QSub(call.cx, QDiv(bgW, QInt(2))))
      /\ CentredOn(Attr(box, "x"), Attr(box, "width"), call.cx)
      /\ Len(pts) = 6
      /\ pts[1] = r(QSub(call.cx, QInt(6))) /\ pts[3] = r(QAdd(call.cx, QInt(6)))
      /\ pts[5] = r(call.cx)
      /\ pts[2] = r(below) /\ pts[4] = r(below)
      /\ pts[6] = r(QAdd(below, QInt(6)))

\* the statement as first made: the apex is at the top y of the anchor
C24_Original_ApexAtAnchor ==
  Called("tooltipAbove") =>
    SingleTipGeometry /\ PointerOf(ret.out)[6] = r(call.topY)

\* C24 (amended): the box of a single-value tooltip is as wide as the
\* estimated text plus twice the horizontal padding and centred on the
\* anchor x, the base of the pointer triangle is centred on the bottom
\* centre of the box and the apex is pointerSize below; the apex is 12 units
\* (offsetY) above the top y of the anchor when that is 54 or more, and at
\* y = 42 below the box held at the minimum y otherwise.
C24_SingleTipGeometryApexOffset ==
  Called("tooltipAbove") =>
    /\ SingleTipGeometry
    /\ PointerOf(ret.out)[6] =
         (IF QLe(QInt(54), call.topY) THEN r(QSub(call.topY, QInt(12))) ELSE QInt(42))

\* a tooltip for an anchor at y = 90 that is not on a whole x: the apex is
\* printed at 78
C24_Witness ==
  /\ Called("tooltipAbove")
  /\ call.topY = QInt(90) /\ call.cx = QNorm(201, 4)
  /\ PointerOf(ret.out)[6] = QInt(78)

\* the estimated width of row k of a multi-value tooltip without its gap
LabelWidth(e) == estimateTextWidth(e.legendLabel, 15, 500)

ValueWidth(e) == estimateTextWidth(e.text, 15, 500)

\* the widest of the heading and the rows, each row with its gap of 10
WidestContent ==
  LET ws == { estimateTextWidth(call.label, 15, 600) }
              \cup { QAdd(QAdd(LabelWidth(call.entries[k]), QInt(10)), ValueWidth(call.entries[k])) :
                       k \in 1..Len(call.entries) }
  IN  CHOOSE m \in ws : \A w \in ws : QLe(w, m)

\* the label and the value element of row k
RowLabel(out, k) == out[2 * k + 2]

RowValue(out, k) == out[2 * k + 3]

\* C25: a multi-value tooltip of N >= 1 rows has a box 20 * (N + 1) + 12
\* high and as wide as the widest of the heading and the rows (label, gap
\* of 10, value) plus the padding on both sides; row k is 20 * k below the
\* heading, its label starts at the inner left edge and its value ends at
\* the inner right edge, so from the end of the label to the start of the
\* value there are at least 10 units, to the precision of print.
C25_MultiTipRowsAligned ==
  (Called("multiTooltipAbove") /\ Len(call.entries) >= 1) =>
    LET n     == Len(call.entries)
        box   == ret.out[1]
        boxH  == 20 * (n + 1) + 12
        boxW  == QAdd(WidestContent, QInt(2 * 14))
        left  == QAdd(QSub(call.cx, QDiv(boxW, QInt(2))), QInt(14))
        right == QSub(QAdd(call.cx, QDiv(boxW, QInt(2))), QInt(14))
        headY == QAdd(QMax(QInt(4), QSub(call.topY, QInt(12 + boxH + 6))), QInt(16))
    IN  /\ Len(ret.out) = 3 + 2 * n
        /\ Attr(box, "height") = QInt(boxH)
        /\ Attr(box, "width") = r(boxW)
        /\ CentredOn(Attr(box, "x"), Attr(box, "width"), call.cx)
        /\ Attr(ret.out[3], "y") = r(headY)
        /\ \A k \in 1..n :
             LET lab == RowLabel(ret.out, k)
                 val == RowValue(ret.out, k)
             IN  /\ lab.text = escapeXml(call.entries[k].legendLabel)
                 /\ val.text = escapeXml(call.entries[k].text)
                 /\ Attr(lab, "text-anchor") = "start" /\ Attr(lab, "x") = r(left)
                 /\ Attr(val, "text-anchor") = "end" /\ Attr(val, "x") = r(right)
                 /\ Attr(lab, "y") = r(QAdd(headY, QInt(20 * k)))
                 /\ Attr(val, "y") = Attr(lab, "y")
                 /\ QLe(QNorm(99, 10),
                        QSub(QSub(Attr(val, "x"), ValueWidth(call.entries[k])),
                             QAdd(Attr(lab, "x"), LabelWidth(call.entries[k]))))

\* a tooltip of the most rows whose widest row decides the width: that row
\* has just the gap between its label and its value, a narrower one more
C25_Witness ==
  /\ Called("multiTooltipAbove")
  /\ Len(call.entries) = MaxRows
  /\ QLt(estimateTextWidth(call.label, 15, 600), WidestContent)
  /\ \E j, k \in 1..MaxRows : call.entries[j] # call.entries[k]

\* a tooltip whose heading is wider than every row
C25_HeadingWidest ==
  /\ Called("multiTooltipAbove")
  /\ Len(call.entries) >= 1
  /\ estimateTextWidth(call.label, 15, 600) = WidestContent

(***************************************************************************)
(* The outline of a rounded bar                                            *)
(***************************************************************************)
Corner(from, ctrl, to) == [kind |-> "Q", from |-> from, ctrl |-> ctrl, to |-> to]

Edge(from, to) == [kind |-> "L", from |-> from, ctrl |-> from, to |-> to]

\* the pieces a path draws from command k on, the pen being at cur: a curve
\* for a Q, a straight piece for an L, and for the Z the straight piece
\* back to the start
RECURSIVE PiecesFrom(_, _, _, _)
PiecesFrom(path, k, cur, start) ==
  IF k > Len(path) THEN <<>>
  ELSE LET c == path[k]
       IN  IF c.op = "Q"
             THEN <<Corner(cur, <<c.args[1], c.args[2]>>, <<c.args[3], c.args[4]>>)>>
                    \o PiecesFrom(path, k + 1, <<c.args[3], c.args[4]>>, start)
           ELSE IF c.op = "L"
             THEN <<Edge(cur, c.args)>> \o PiecesFrom(path, k + 1, c.args, start)
           ELSE <<Edge(cur, start)>> \o PiecesFrom(path, k + 1, start, start)

PiecesOf(path) == PiecesFrom(path, 2, path[1].args, path[1].args)

\* pieces without the straight pieces of no length
Drawn(pieces) == SelectSeq(pieces, LAMBDA p : p.kind = "Q" \/ p.from # p.to)

\* the outline of the fully rounded rectangle of the call, clockwise from
\* the point below the top-left corner, as printed
RoundedOutline ==
  LET rr == CallRR
      x0 == call.x
      y0 == call.y
      x1 == QAdd(call.x, call.w)
      y1 == QAdd(call.y, call.h)
      P(a, b) == <<r(a), r(b)>>
  IN  <<Corner(P(x0, QAdd(y0, rr)), P(x0, y0), P(QAdd(x0, rr), y0)),
        Edge(P(QAdd(x0, rr), y0), P(QSub(x1, rr), y0)),
        Corner(P(QSub(x1, rr), y0), P(x1, y0), P(x1, QAdd(y0, rr))),
        Edge(P(x1, QAdd(y0, rr)), P(x1, QSub(y1, rr))),
        Corner(P(x1, QSub(y1, rr)), P(x1, y1), P(QSub(x1, rr), y1)),
        Edge(P(QSub(x1, rr), y1), P(QAdd(x0, rr), y1)),
        Corner(P(QAdd(x0, rr), y1), P(x0, y1), P(x0, QSub(y1, rr))),
        Edge(P(x0, QSub(y1, rr)), P(x0, QAdd(y0, rr)))>>

\* a straight piece that runs the way of the outline: right along the top,
\* down the right, left along the bottom, up the left
RunsClockwise(p) ==
  LET top    == r(call.y)
      bottom == r(QAdd(call.y, call.h))
      left   == r(call.x)
      right  == r(QAdd(call.x, call.w))
  IN  \/ p.from[2] = top /\ p.to[2] = top /\ QLe(p.from[1], p.to[1])
      \/ p.from[1] = right /\ p.to[1] = right /\ QLe(p.from[2], p.to[2])
      \/ p.from[2] = bottom /\ p.to[2] = bottom /\ QLe(p.to[1], p.from[1])
      \/ p.from[1] = left /\ p.to[1] = left /\ QLe(p.to[2], p.from[2])

InsideBar(pt) ==
  /\ QLe(r(call.x), pt[1]) /\ QLe(pt[1], r(QAdd(call.x, call.w)))
  /\ QLe(r(call.y), pt[2]) /\ QLe(pt[2], r(QAdd(call.y, call.h)))

ChannelsBelowHalf(hex) ==
  LET rgb == hexToRgb(hex)
  IN  Max3(rgb[1], rgb[2], rgb[3]) + Min3(rgb[1], rgb[2], rgb[3]) < 255

\* the backgrounds given, by their darkness
GivenBackgrounds(isDark) == { bg \in BgSamples \ {NoColor} : ChannelsBelowHalf(bg) = isDark }

\* the other index of the tier of index > 0
TierMate(index) == IF index % 2 = 1 THEN index + 1 ELSE index - 1

\* C27: isDarkBackground(bg) is true iff the lightness of bg is below 50,
\* that is iff its largest and smallest channel add up to less than 255;
\* for index > 0 the shade is dark iff the index is odd when no background
\* is given or the background is light, and iff the index is even when the
\* background is dark; so the two indices of a tier get opposite directions
\* and an index gets opposite directions on a dark and on a light background.
C27_ShadingDirection ==
  /\ Called("isDarkBackground") =>
       /\ ret.out = QLt(hexToHsl(call.bgHex)[3], QInt(50))
       /\ ret.out = ChannelsBelowHalf(call.bgHex)
  /\ (Called("getSeriesColor") /\ call.index > 0) =>
       LET odd    == call.index % 2 = 1
           darkBg == call.bgColor # NoColor /\ ChannelsBelowHalf(call.bgColor)
       IN  /\ ret.dark = (IF darkBg THEN ~odd ELSE odd)
           /\ ret.dark = (ret.l < 50)
           /\ seriesTier(TierMate(call.index)) = ret.tier
           /\ seriesDark(TierMate(call.index), call.bgColor) # ret.dark
           /\ call.bgColor # NoColor =>
                \A other \in GivenBackgrounds(~darkBg) :
                  seriesDark(call.index, other) # ret.dark

\* an even index on the background one step darker than lightness 50: the
\* shade is dark, as it is for the odd index of the tier on the background
\* one step lighter
C27_Witness ==
  /\ Called("getSeriesColor")
  /\ call.index = 4
  /\ call.bgColor = Hex("7", "f", "7", "f", "7", "f")
  /\ ret.dark
  /\ ~seriesDark(4, Hex("8", "0", "7", "f", "7", "f"))

(***************************************************************************)
(* The spline system, checked under SpecCurve                              *)
(***************************************************************************)
StrictlyIncreasingX(points) ==
  \A k \in 1..(Len(points) - 1) : QLt(points[k].x, points[k + 1].x)

\* C28: for n >= 3 points with strictly increasing x the coefficients c of
\* the elimination and back substitution are 0 at both ends and satisfy
\* h[i-1]*c[i-1] + 2*(h[i-1]+h[i])*c[i] + h[i]*c[i+1] = 3*(delta[i] -
\* delta[i-1]) at every interior i, so that the slope at an interior knot is
\* the same from the left and from the right; the segment that ends at the
\* knot and the one that starts there meet at the knot, and their control
\* points next to the knot lie on the line of slope slopes[i] through it, a
\* third of the interval to either side, as printed.
C28_SplineSystemSolved ==
  (Called("smoothCurvePath") /\ Len(call.points) >= 3 /\ StrictlyIncreasingX(call.points)) =>
    LET n      == Len(call.points)
        h      == splineH(call.points)
        delta  == splineDelta(call.points, h)
        c      == splineC(n, h, delta)
        slopes == splineSlopes(n, h, delta, c)
    IN  /\ c[0] = QInt(0) /\ c[n - 1] = QInt(0)
        /\ \A i \in 1..(n - 2) :
             LET knot     == Pt(call.points, i)
                 incoming == ret.out[i + 1]
                 outgoing == ret.out[i + 2]
                 before   == QDiv(h[i - 1], QInt(3))
                 after    == QDiv(h[i], QInt(3))
             IN  /\ QAdd(QAdd(QMul(h[i - 1], c[i - 1]),
                              QMul(QMul(QInt(2), QAdd(h[i - 1], h[i])), c[i])),
                         QMul(h[i], c[i + 1]))
                      = QMul(QInt(3), QSub(delta[i], delta[i - 1]))
                 /\ slopes[i] = QAdd(delta[i - 1],
                                     QDiv(QMul(h[i - 1], QAdd(c[i - 1], QMul(QInt(2), c[i]))),
                                          QInt(3)))
                 /\ incoming.op = "C" /\ outgoing.op = "C"
                 /\ incoming.args[5] = r(knot.x) /\ incoming.args[6] = r(knot.y)
                 /\ incoming.args[3] = r(QSub(knot.x, before))
                 /\ incoming.args[4] = r(QSub(knot.y, QMul(slopes[i], before)))
                 /\ outgoing.args[1] = r(QAdd(knot.x, after))
                 /\ outgoing.args[2] = r(QAdd(knot.y, QMul(slopes[i], after)))

\* four points at unequal distances that are not on one line: both interior
\* coefficients are not 0
C28_Witness ==
  /\ Called("smoothCurvePath")
  /\ Len(call.points) = 4
  /\ StrictlyIncreasingX(call.points)
  /\ QSub(call.points[2].x, call.points[1].x) # QSub(call.points[3].x, call.points[2].x)
  /\ LET h == splineH(call.points)
         c == splineC(4, h, splineDelta(call.points, h))
     IN  c[1] # QInt(0) /\ c[2] # QInt(0)

(***************************************************************************)
(* The document without interactivity, checked under SpecRender            *)
(***************************************************************************)
\* the style element of chartStyles, the third part of the document
ChartStyleOf(parts) == parts[3]

\* the selectors of the rules of the style element of chartStyles
SelectorsOf(style) ==
  { style.text.base[k] : k \in 1..Len(style.text.base) }
    \cup { style.text.seriesRules[k][1] : k \in 1..Len(style.text.seriesRules) }
    \cup { style.text.tipRules[k] : k \in 1..Len(style.text.tipRules) }

TipSelectors ==
  { ".xychart-tip", ".xychart-tip-bg", ".xychart-tip-text", ".xychart-tip-ptr",
    ".xychart-bar-group:hover .xychart-tip, .xychart-dot-group:hover .xychart-tip" }

IsOverlayElem(e) ==
  \/ ClassOf(e) \in { "xychart-bar-group", "xychart-dot-group", "xychart-hit", "xychart-tip" }
  \/ IsTipElem(e)
  \/ e.tag = "g"
  \/ HasAttr(e, "fill") /\ Attr(e, "fill") = "transparent"

\* C29: a document rendered with interactive = false has no overlay group,
\* no hit-region and no tooltip element at any depth, and its chart style
\* element has no tooltip or hover rule, for every chart.
C29_NothingInteractiveWhenStatic ==
  (Rendered /\ ~call.interactive) =>
    LET all == Flatten(ret.out)
    IN  /\ \A k \in 1..Len(all) : ~IsOverlayElem(all[k])
        /\ Len(all) = Len(ret.out)
        /\ ChartStyleOf(ret.out).tag = "style"
        /\ ChartStyleOf(ret.out).text.tipRules = <<>>
        /\ SelectorsOf(ChartStyleOf(ret.out)) \cap TipSelectors = {}

\* a static rendering of a chart with two bars and a sparse line: the bars
\* and the point markers are there, bare
C29_Witness ==
  /\ Rendered /\ ~call.interactive
  /\ Len(call.chart.bars) = 2
  /\ MostPoints >= 1 /\ MostPoints <= 12
  /\ Len(BarElems) >= 2
  /\ Len(DotElems) = Len(ChartPoints)

\* the same chart rendered with interactivity has the overlay and the rules
C29_InteractiveHasOverlay ==
  /\ Rendered /\ call.interactive
  /\ \E k \in 1..Len(ret.out) : IsOverlayElem(ret.out[k])
  /\ SelectorsOf(ChartStyleOf(ret.out)) \cap TipSelectors = TipSelectors

(***************************************************************************)
(* The point markers and the points, checked under SpecRender              *)
(***************************************************************************)
\* the marker e is the one of the point p
MarkerOf(e, p) ==
  /\ e.tag = "circle"
  /\ Attr(e, "cx") = r(p.x) /\ Attr(e, "cy") = r(p.y)
  /\ ClassOf(e) = colorClass("xychart-dot", p.colorIndex)
  /\ Attr(e, "data-value") = p.value

\* the point q is drawn as the point p is
DrawnAlike(q, p) ==
  r(q.x) = r(p.x) /\ r(q.y) = r(p.y) /\ q.colorIndex = p.colorIndex /\ q.value = p.value

LinesWithPoints == { k \in 1..Len(call.chart.lines) : call.chart.lines[k].points # <<>> }

PathsClassed(c) == SelectSeq(ret.out, LAMBDA e : e.tag = "path" /\ ClassedAs(e, c))

\* C30: whenever point markers are rendered (with interactivity, or without
\* it for a sparse chart) every point of every line has exactly one
\* xychart-dot circle, as many circles as points and each point's circle as
\* often as there are points drawn alike; with interactivity all of them are
\* inside xychart-dot-group elements, one group for each distinct x as
\* printed to one decimal, without it none is; the lines with points have
\* one line path and one shadow path each, so a line without points has
\* neither a path nor a marker.
C30_OneMarkerPerPoint ==
  Rendered =>
    LET dots == DotElems
        pts  == ChartPoints
    IN  /\ Len(PathsClassed("xychart-line")) = Cardinality(LinesWithPoints)
        /\ Len(PathsClassed("xychart-line-shadow")) = Cardinality(LinesWithPoints)
        /\ LinesWithPoints = {} => Len(dots) = 0
        /\ (call.interactive \/ (MostPoints >= 1 /\ MostPoints <= 12)) =>
             /\ Len(dots) = Len(pts)
             /\ \A k \in 1..Len(pts) :
                  Len(SelectSeq(dots, LAMBDA e : MarkerOf(e, pts[k])))
                    = Len(SelectSeq(pts, LAMBDA q : DrawnAlike(q, pts[k])))
             /\ IF call.interactive
                  THEN /\ InlineDotAt = {}
                       /\ Len(DotGroups) = Cardinality(ColumnKeys)
                       /\ \A k \in 1..Len(DotGroups) : Len(DotsIn(DotGroups[k])) >= 1
                  ELSE Len(DotGroups) = 0 /\ Cardinality(InlineDotAt) = Len(pts)

\* an interactive rendering of three lines, one of them without points: four
\* points at three printed x, so three groups hold four markers
C30_Witness ==
  /\ Rendered /\ call.interactive
  /\ Len(call.chart.lines) = 3
  /\ Cardinality(LinesWithPoints) = 2
  /\ Len(ChartPoints) = 4
  /\ Len(DotGroups) = 3
  /\ Len(DotElems) = 4
  /\ Cardinality({ ChartPoints[k].x : k \in 1..4 }) = 4
====
